---- MODULE Spec2Model ----
(***************************************************************************)
(* Verification model of the deterministic core of Sonny:                  *)
(*   core/validator.py     validate_actions, validate_plan                 *)
(*   core/state_manager.py AgentState                                      *)
(*   core/loop_guard.py    LoopGuard.check                                 *)
(*   core/planner.py       _extract_json, _ask_json                        *)
(*   core/agent.py         ActionExecutor.execute_actions (from the spec   *)
(*                         and tests/test_execution_paths.py)              *)
(*                                                                         *)
(* Text is modelled as a sequence of atoms.  An atom stands for a piece of *)
(* text that the code's string operations never cut in two: a single       *)
(* special character ("/", ".", ":", "\\"), one letter ("C"), or a whole   *)
(* word ("ts", "main", "fase").                                            *)
(***************************************************************************)
EXTENDS Integers, Sequences, FiniteSets, TLC

VARIABLES
    payload,                \* validate_actions: the actions payload under validation
    verdict,                \* validate_actions: "pending" | "accepted" | "ValidationError"
    plan,                   \* validate_plan: the plan under validation
    planVerdict,            \* validate_plan: "pending" | "accepted" | "ValidationError"
    current_phase,          \* AgentState.current_phase (NoPhase is None)
    completed_phases,       \* AgentState.completed_phases
    action_history,         \* AgentState.action_history
    iteration_count,        \* AgentState.iteration_count
    phase_action_count,     \* AgentState.phase_action_count
    phase_repetition_count, \* AgentState.phase_repetition_count
    task_workspace,         \* AgentState.task_workspace (NoPath is None)
    current_workdir,        \* AgentState.current_workdir
    project_root,           \* AgentState.project_root
    lastCall,               \* the last AgentState / executor operation and its input
    guard,                  \* outcome of the last LoopGuard.check: "none" | "ok" | a rule name
    batch,                  \* execute_actions: the top-level batch in execution
    cursor,                 \* execute_actions: number of top-level actions started
    executed,               \* execute_actions: actions whose handler has run, in order
    results,                \* execute_actions: result record per finished top-level action
    execStatus,             \* execute_actions: "idle" | "running" | "done" | "ExecutorError"
    oracle,                 \* _ask_json: the raw responses the oracle will give, in order
    llmCalls,               \* _ask_json: number of call_llm calls issued
    prompts,                \* _ask_json: the prompts sent, in order
    askStatus,              \* _ask_json: "pending" | "returned" | "PlannerError"
    askValue,               \* _ask_json: the value returned
    fix_round,              \* _serve_and_fix: the loop variable
    last_hash,              \* _serve_and_fix: files hash seen by the previous failing round
    error_codes_history,    \* _serve_and_fix: error codes of each failing build
    builds,                 \* _serve_and_fix: output of each ng build run, in order
    fixRequests,            \* _serve_and_fix: kind of each fix prompt sent to the oracle
    serveStatus,            \* _serve_and_fix: "idle" | "building" | "fixing" | how it ended
    phaseOrder,             \* run of a plan: the phase names in execution order
    started,                \* run of a plan: the phases started so far, in order
    orchStatus,             \* run of a plan: "idle" | "ordered" | "in_phase" | ...
    frames,                 \* nested execution: the payloads under execution, outermost first
    oracleLog,              \* nested execution: the oracle calls made, with depth and response
    nestResults,            \* nested execution: the results of the top-level actions
    nestStatus,             \* nested execution: "idle" | "running" | "done" | "ExecutorError"
    files,                  \* nested execution: the paths written in the workspace
    handlerLog,             \* nested execution: how the handler of each top-level action ended
    now,                    \* the wall clock, in seconds
    workspaces,             \* the task workspaces returned so far, oldest first
    dirs,                   \* the directories under WORKSPACE_ROOT
    callerPc,               \* ask_ai_multiturn: the calling thread, "idle" | "blocked"
    coro,                   \* _multiturn_async on the runtime loop: where the coroutine is
    inFlight,               \* the prompts sent to the oracle and not yet answered or failed
    oracleEvents,           \* "send" | "return" | "fail", in order of occurrence
    _RUNTIME_LOOP,          \* ai_scraper: the registered loop and its thread, 0 for None
    loops,                  \* ai_scraper: every loop created so far, "running" | "stopped"
    threadPc,               \* ai_scraper: where each calling thread stands
    threadLoop,             \* ai_scraper: the local variable loop of each calling thread
    submitted,              \* ai_scraper: the coroutines handed to a loop by the callers
    rawSteps,               \* run_orchestrator: the steps read from the oracle's plan
    steps,                  \* run_orchestrator: the steps that _parse_plan returned
    step_num,               \* run_orchestrator: position in exec_steps
    attempt,                \* run_orchestrator: fix attempt of the failed step, 0 if none
    stepLog,                \* run_orchestrator: commands run, files written, oracle asked
    stepStatus,             \* run_orchestrator: "idle" | "running" | "fixing" | how it ended
    quality_round,          \* quality gate: the autofix round, 0 before the first
    roundFailures,          \* quality gate: the failing checks of each round, in order
    fixContexts,            \* quality gate: the autofix context built in each round
    fixPrompts,             \* quality gate: what get_phase_actions wrote into each prompt
    autofixStatus,          \* quality gate: "idle" | "gate" | "autofix" | how it ended
    task,                   \* the retry loop that the task invocation is in, "none" if none
    create_attempt,         \* run_orchestrator: attempt of the ng new loop
    create_cmd,             \* run_orchestrator: "default" or the command of a fix response
    create_asks,            \* run_orchestrator: fix requests sent by the ng new loop
    createStatus,           \* run_orchestrator: "idle" | "creating" | "created" | "failed"
    agent_i,                \* run_agent: the loop variable i, one oracle call per pass
    last_action_hash,       \* run_agent: hash of the last single action, "" if none
    agentStatus,            \* run_agent: "idle" | "running" | how it ended
    agentPass               \* run_agent: the last pass, its response and what it executed

valVars   == <<payload, verdict>>
planVars  == <<plan, planVerdict>>
countVars == <<current_phase, completed_phases, action_history, iteration_count,
               phase_action_count, phase_repetition_count>>
pathVars  == <<task_workspace, current_workdir, project_root>>
execVars  == <<batch, cursor, executed, results, execStatus>>
askVars   == <<oracle, llmCalls, prompts, askStatus, askValue>>
serveVars == <<fix_round, last_hash, error_codes_history, builds, fixRequests, serveStatus>>
runVars   == <<phaseOrder, started, orchStatus>>
nestVars  == <<frames, oracleLog, nestResults, nestStatus, files, handlerLog>>
wsVars    == <<now, workspaces, dirs>>
loopVars  == <<_RUNTIME_LOOP, loops, threadPc, threadLoop, submitted>>
webVars   == <<callerPc, coro, inFlight, oracleEvents, loopVars>>
stepVars  == <<rawSteps, steps, step_num, attempt, stepLog, stepStatus>>
autofixVars == <<quality_round, roundFailures, fixContexts, fixPrompts, autofixStatus>>
createVars == <<create_attempt, create_cmd, create_asks, createStatus>>
agentVars == <<agent_i, last_action_hash, agentStatus, agentPass>>
retryVars == <<task, createVars, agentVars>>
lateVars  == <<stepVars, autofixVars, retryVars>>
orchVars  == <<serveVars, runVars, nestVars, wsVars, webVars, lateVars>>
vars      == <<valVars, planVars, countVars, pathVars, lastCall, guard, execVars, askVars,
               orchVars>>

(***************************************************************************)
(* Generic helpers on sequences of atoms.                                  *)
(***************************************************************************)
Range(s) == {s[i] : i \in 1..Len(s)}

SeqsUpTo(S, n) == UNION {[1..k -> S] : k \in 0..n}

Last(s) == s[Len(s)]

\* s contains t as a contiguous piece
Contains(s, t) ==
    \E i \in 1..(Len(s) - Len(t) + 1) : SubSeq(s, i, i + Len(t) - 1) = t

\* str.replace for a single atom
ReplaceAtom(s, from, to) == [i \in 1..Len(s) |-> IF s[i] = from THEN to ELSE s[i]]

\* str.split(sep) for a single-atom separator
RECURSIVE Split(_, _)
Split(s, sep) ==
    IF sep \notin Range(s) THEN <<s>>
    ELSE LET i == CHOOSE k \in 1..Len(s) : s[k] = sep /\ \A j \in 1..(k - 1) : s[j] # sep
         IN  <<SubSeq(s, 1, i - 1)>> \o Split(SubSeq(s, i + 1, Len(s)), sep)

\* str.lower / str.casefold on the atoms used below
LowerAtom(a) ==
    CASE a = "C"    -> "c"
      [] a = "Main" -> "main"
      [] a = "TS"   -> "ts"
      [] a = "Fase" -> "fase"
      [] a = "FASE" -> "fase"
      [] a = "Phase" -> "phase"
      [] a = "X"    -> "x"
      [] a = "A.ts" -> "a.ts"
      [] a = "Analytics" -> "analytics"
      [] a = "TODO" -> "todo"
      [] a = "HTML" -> "html"
      [] a = "RM"   -> "rm"
      [] a = "-RF"  -> "-rf"
      [] a = "Shutdown" -> "shutdown"
      [] a = "MKFS" -> "mkfs"
      [] a = "NG"   -> "ng"
      [] a = "Serve" -> "serve"
      [] OTHER      -> a

Lower(s) == [i \in 1..Len(s) |-> LowerAtom(s[i])]

IsSpace(a) == a \in {" ", "  "}

\* str.strip
RECURSIVE LStrip(_)
LStrip(s) == IF s # <<>> /\ IsSpace(s[1]) THEN LStrip(Tail(s)) ELSE s

RECURSIVE RStrip(_)
RStrip(s) == IF s # <<>> /\ IsSpace(Last(s)) THEN RStrip(SubSeq(s, 1, Len(s) - 1)) ELSE s

Strip(s) == RStrip(LStrip(s))

\* a JSON field value: a string (its text) or something that is not a string
Str(text) == [isStr |-> TRUE, text |-> text]
NonStr    == [isStr |-> FALSE, text |-> <<>>]

(***************************************************************************)
(* core/validator.py : validate_actions                                    *)
(*                                                                         *)
(* Every check returns "ok" or the ValidationError it raises.              *)
(* Path atoms:    "/" "\\" "." ":"  one letter "C"  words "ts" "main" ...  *)
(* Command atoms: words ("rm", "-rf", "ls", ...) and blanks (" ").         *)
(* Content atoms: "todo" a placeholder phrase (one of PLACEHOLDER_HINTS),  *)
(*   "blockc" a /* */ comment, "linec" a whole // comment line,            *)
(*   "htmlc" a <!-- --> comment, "decl" a declaration (export const x=1;), *)
(*   "tag" an HTML tag, "rule" a CSS rule a{b:c}, "prose" plain words,     *)
(*   " " blanks; "blockc_todo" "linec_todo" "htmlc_todo" are comments      *)
(*   whose text holds a placeholder phrase; "/*" "*/" "//" are the bare    *)
(*   comment marks and "nl" is a line break.                               *)
(***************************************************************************)
ALLOWED_ACTION_TYPES == {"command", "file_write", "file_modify", "llm_call"}

PROTECTED_FILES ==
    { <<"angular", ".", "json">>, <<"package", ".", "json">>,
      <<"main", ".", "ts">>, <<"index", ".", "html">> }

\* [a-zA-Z]
IsLetter(a) == a \in {"C", "c"}

RECURSIVE SkipSpaces(_, _)
SkipSpaces(s, i) == IF i <= Len(s) /\ IsSpace(s[i]) THEN SkipSpaces(s, i + 1) ELSE i

\* the words w, separated by \s+, stand in s from position i on
RECURSIVE MatchWords(_, _, _)
MatchWords(s, i, w) ==
    \/ w = <<>>
    \/ /\ i <= Len(s)
       /\ s[i] = w[1]
       /\ \/ Len(w) = 1
          \/ LET j == SkipSpaces(s, i + 1)
             IN  j > i + 1 /\ MatchWords(s, j, Tail(w))

\* re.search of one of DANGEROUS_COMMAND_PATTERNS in the lower-cased command
DangerousCommand(lower) ==
    \E i \in 1..Len(lower) :
        \/ MatchWords(lower, i, <<"rm", "-rf">>)
        \/ MatchWords(lower, i, <<"dd", "if=">>)
        \/ lower[i] = "mkfs"
        \/ lower[i] = "shutdown"
        \/ lower[i] = "format"
        \/ MatchWords(lower, i, <<"del", "/f", "/s", "/q">>)
        \/ /\ lower[i] = "curl"
           /\ i + 1 <= Len(lower) /\ IsSpace(lower[i + 1])
           /\ \E k \in (i + 2)..Len(lower) :
                /\ lower[k] = "|"
                /\ \A m \in (i + 2)..(k - 1) : lower[m] # "|"
                /\ LET j == SkipSpaces(lower, k + 1)
                   IN  j <= Len(lower) /\ lower[j] = "sh"

_validate_command_CaseSensitive(command) ==
    IF command.text = <<>> \/ ~command.isStr THEN "no_command"
    ELSE IF DangerousCommand(command.text) THEN "dangerous_command"
    ELSE "ok"

_validate_command(command) ==
    IF command.text = <<>> \/ ~command.isStr THEN "no_command"
    ELSE IF DangerousCommand(Lower(command.text)) THEN "dangerous_command"
    ELSE "ok"

_validate_path_NoTraversalCheck(path) ==
    IF path.text = <<>> \/ ~path.isStr THEN "no_path"
    ELSE LET cleaned == ReplaceAtom(path.text, "\\", "/")
         IN  IF \/ cleaned[1] = "/"
                \/ (Len(cleaned) >= 3 /\ IsLetter(cleaned[1])
                       /\ cleaned[2] = ":" /\ cleaned[3] = "/")
             THEN "absolute_path"
             ELSE IF "/" \notin Range(cleaned)
                       /\ Lower(Last(Split(cleaned, "/"))) \in PROTECTED_FILES
             THEN "protected_file"
             ELSE "ok"

_validate_path(path) ==
    IF path.text = <<>> \/ ~path.isStr THEN "no_path"
    ELSE LET cleaned     == ReplaceAtom(path.text, "\\", "/")
             normalized  == Lower(Last(Split(cleaned, "/")))
             is_top_level == "/" \notin Range(cleaned)
         IN  IF \/ cleaned[1] = "/"
                \/ (Len(cleaned) >= 3 /\ IsLetter(cleaned[1])
                       /\ cleaned[2] = ":" /\ cleaned[3] = "/")
             THEN "absolute_path"
             ELSE IF <<".", ".">> \in Range(Split(cleaned, "/"))
             THEN "path_traversal"
             ELSE IF is_top_level /\ normalized \in PROTECTED_FILES
             THEN "protected_file"
             ELSE "ok"

\* re.sub(pattern, "", text) for a pattern that matches exactly the atoms in drop
RECURSIVE Remove(_, _)
Remove(s, drop) ==
    IF s = <<>> THEN <<>>
    ELSE IF s[1] \in drop THEN Remove(Tail(s), drop)
    ELSE <<s[1]>> \o Remove(Tail(s), drop)

\* path.lower().split('.')[-1] if '.' in path else ''
FileExt(pathText) ==
    IF "." \in Range(pathText) THEN Last(Split(Lower(pathText), ".")) ELSE <<>>

\* the atoms that hold one of PLACEHOLDER_HINTS
PLACEHOLDER_HINTS == {"todo", "blockc_todo", "linec_todo", "htmlc_todo"}

BlockComments == {"blockc", "blockc_todo"}
LineComments  == {"linec", "linec_todo"}
HtmlComments  == {"htmlc", "htmlc_todo"}

\* the first position from i on that holds an atom of the set, 0 when there is none
RECURSIVE FirstOf(_, _, _)
FirstOf(s, i, set) ==
    IF i > Len(s) THEN 0 ELSE IF s[i] \in set THEN i ELSE FirstOf(s, i + 1, set)

\* re.sub(r"/\*.*?\*/", "", text, flags=re.DOTALL): from each /* to the first */
\* after it; a whole comment atom opens and closes itself, and closes an open /*
RECURSIVE SubBlock(_, _)
SubBlock(s, i) ==
    IF i > Len(s) THEN <<>>
    ELSE IF s[i] \in BlockComments THEN SubBlock(s, i + 1)
    ELSE IF s[i] = "/*" /\ FirstOf(s, i + 1, BlockComments \cup {"*/"}) # 0
    THEN SubBlock(s, FirstOf(s, i + 1, BlockComments \cup {"*/"}) + 1)
    ELSE <<s[i]>> \o SubBlock(s, i + 1)

\* re.sub(r"^\s*//.*$", "", text, flags=re.MULTILINE): a // that only blanks
\* separate from the start of a line goes with the rest of its line; a whole
\* line-comment atom ends with its line break
RECURSIVE SubLine(_, _, _)
SubLine(s, i, atStart) ==
    IF i > Len(s) THEN <<>>
    ELSE IF s[i] = "nl" THEN <<"nl">> \o SubLine(s, i + 1, TRUE)
    ELSE IF IsSpace(s[i]) THEN <<s[i]>> \o SubLine(s, i + 1, atStart)
    ELSE IF atStart /\ s[i] \in LineComments THEN SubLine(s, i + 1, TRUE)
    ELSE IF atStart /\ s[i] = "//"
    THEN LET j == FirstOf(s, i + 1, LineComments \cup {"nl"})
         IN  IF j = 0 THEN <<>>
             ELSE IF s[j] = "nl" THEN SubLine(s, j, TRUE)
             ELSE SubLine(s, j + 1, TRUE)
    ELSE <<s[i]>> \o SubLine(s, i + 1, s[i] \in LineComments)

\* str.strip with line breaks
StripLines(s) == LET t == [i \in 1..Len(s) |-> IF s[i] = "nl" THEN " " ELSE s[i]]
                 IN  IF Strip(t) = <<>> THEN <<>>
                     ELSE SubSeq(s, Len(t) - Len(LStrip(t)) + 1, Len(RStrip(t)))

\* the text of a TypeScript/JavaScript file without its comments
CodeBody(stripped) == StripLines(SubLine(SubBlock(stripped, 1), 1, TRUE))

_validate_file_content_NoHints(path, content) ==
    IF ~content.isStr THEN "content_not_string"
    ELSE LET lowered  == Lower(content.text)
             ext      == FileExt(path.text)
             stripped == StripLines(content.text)
         IN  IF stripped = <<>> THEN "empty_content"
             ELSE IF ext \in {<<"ts">>, <<"tsx">>, <<"js">>, <<"jsx">>}
                     /\ CodeBody(stripped) = <<>>
             THEN "only_comments"
             ELSE IF ext \in {<<"ts">>, <<"tsx">>, <<"js">>, <<"jsx">>}
                     /\ "decl" \notin Range(Lower(CodeBody(stripped)))
             THEN "suspicious_code"
             ELSE IF ext \in {<<"html">>, <<"htm">>}
                     /\ Strip(Remove(stripped, HtmlComments)) = <<>>
             THEN "only_comments"
             ELSE IF ext \in {<<"html">>, <<"htm">>}
                     /\ "tag" \notin Range(Remove(stripped, HtmlComments))
             THEN "invalid_html"
             ELSE IF ext \in {<<"scss">>, <<"css">>}
                     /\ "rule" \notin Range(SubBlock(stripped, 1))
             THEN "no_css_rule"
             ELSE "ok"

_validate_file_content(path, content) ==
    IF ~content.isStr THEN "content_not_string"
    ELSE LET lowered  == Lower(content.text)
             ext      == FileExt(path.text)
             stripped == StripLines(content.text)
         IN  IF Range(lowered) \cap PLACEHOLDER_HINTS # {} THEN "placeholder"
             ELSE IF stripped = <<>> THEN "empty_content"
             ELSE IF ext \in {<<"ts">>, <<"tsx">>, <<"js">>, <<"jsx">>}
                     /\ CodeBody(stripped) = <<>>
             THEN "only_comments"
             ELSE IF ext \in {<<"ts">>, <<"tsx">>, <<"js">>, <<"jsx">>}
                     /\ "decl" \notin Range(Lower(CodeBody(stripped)))
             THEN "suspicious_code"
             ELSE IF ext \in {<<"html">>, <<"htm">>}
                     /\ Strip(Remove(stripped, HtmlComments)) = <<>>
             THEN "only_comments"
             ELSE IF ext \in {<<"html">>, <<"htm">>}
                     /\ "tag" \notin Range(Remove(stripped, HtmlComments))
             THEN "invalid_html"
             ELSE IF ext \in {<<"scss">>, <<"css">>}
                     /\ "rule" \notin Range(SubBlock(stripped, 1))
             THEN "no_css_rule"
             ELSE "ok"

ValidateAction_AnyType(action) ==
    IF ~action.isDict THEN "not_an_object"
    ELSE IF action.type = "command" THEN _validate_command(action.command)
    ELSE IF action.type \in {"file_write", "file_modify"}
    THEN IF _validate_path(action.path) # "ok" THEN _validate_path(action.path)
         ELSE _validate_file_content(action.path, action.content)
    ELSE "ok"

\* the checks of one loop iteration of validate_actions
ValidateAction(action) ==
    IF ~action.isDict THEN "not_an_object"
    ELSE IF action.type \notin ALLOWED_ACTION_TYPES THEN "type_not_allowed"
    ELSE IF action.type = "command" THEN _validate_command(action.command)
    ELSE IF action.type \in {"file_write", "file_modify"}
    THEN IF _validate_path(action.path) # "ok" THEN _validate_path(action.path)
         ELSE _validate_file_content(action.path, action.content)
    ELSE "ok"

\* the error of the first offending action, "ok" when there is none
RECURSIVE FirstError(_)
FirstError(actions) ==
    IF actions = <<>> THEN "ok"
    ELSE IF ValidateAction(actions[1]) # "ok" THEN ValidateAction(actions[1])
    ELSE FirstError(Tail(actions))

validate_actions(actions_payload) ==
    IF ~actions_payload.isList \/ actions_payload.actions = <<>> THEN "no_actions"
    ELSE FirstError(actions_payload.actions)

(***************************************************************************)
(* Inputs of validate_actions.                                             *)
(***************************************************************************)
MaxPathLen    == 3
MaxCompanions == 1
MaxTokens     == 5

PathAtoms == {"/", "\\", ".", ":", "C", "ts"}

PathInputs ==
    SeqsUpTo(PathAtoms, MaxPathLen)
        \cup { <<"main", ".", "ts">>, <<"Main", ".", "TS">>,
               <<"C", "/", "main", ".", "ts">>, <<".", "/", "main", ".", "ts">>,
               <<".", "\\", "main", ".", "ts">>, <<"C", "\\", "Main", ".", "TS">>,
               <<"package", ".", "json">>, <<".", "/", "index", ".", "html">> }

ContentInputs == { Str(<<"decl">>), Str(<<"blockc", " ">>) }

CommandInputs ==
    { Str(<<"ls">>), Str(<<>>), NonStr,
      Str(<<"rm", " ", "-rf", " ", "/">>), Str(<<"curl", " ", "url", "|", "sh">>),
      Str(<<"sudo", " ", "RM", "  ", "-RF", " ", "/">>), Str(<<"dd", " ", "if=">>),
      Str(<<"MKFS">>), Str(<<"Shutdown", " ", "now">>), Str(<<"format", " ", "C">>),
      Str(<<"del", " ", "/f", " ", "/s", " ", "/q", " ", "C">>),
      Str(<<"curl", " ", "url", " ", "|", "  ", "sh">>),
      Str(<<"rm", " ", "C">>), Str(<<"curl", " ", "url">>), Str(<<"del", " ", "/f">>) }

Action(type, path, content, command) ==
    [isDict |-> TRUE, type |-> type, path |-> path, content |-> content, command |-> command]

NotAnObject ==
    [isDict |-> FALSE, type |-> "", path |-> Str(<<>>), content |-> Str(<<>>),
     command |-> Str(<<>>)]

FileActions ==
    { Action(t, Str(p), c, Str(<<>>)) :
        t \in {"file_write", "file_modify"}, p \in PathInputs, c \in ContentInputs }

\* file actions that probe the content checks
ContentPathInputs ==
    { <<"C", ".", "ts">>, <<"C", ".", "TS">>, <<"src", "/", "C", ".", "html">>,
      <<"C", ".", "HTML">>, <<"C", ".", "css">>, <<"C", ".", "md">>, <<"C">> }

ContentProbeInputs ==
    { Str(<<>>), Str(<<" ">>), NonStr,
      Str(<<"todo">>), Str(<<"prose", " ", "TODO">>), Str(<<"linec_todo">>),
      Str(<<"htmlc_todo">>), Str(<<"blockc_todo", " ">>), Str(<<"decl", "todo">>),
      Str(<<"linec">>), Str(<<"blockc", " ", "linec">>), Str(<<"htmlc">>),
      Str(<<"htmlc", " ", "htmlc">>), Str(<<"linec", "decl">>), Str(<<"htmlc", "tag">>),
      Str(<<"decl">>), Str(<<"tag">>), Str(<<"rule">>), Str(<<"prose">>) }

ContentProbeActions ==
    { Action(t, Str(p), c, Str(<<>>)) :
        t \in {"file_write", "file_modify"}, p \in ContentPathInputs,
        c \in ContentProbeInputs }

ProbeActions ==
    FileActions
        \cup ContentProbeActions
        \cup { Action("file_write", NonStr, Str(<<"decl">>), Str(<<>>)) }
        \cup { Action("command", Str(<<>>), Str(<<>>), c) : c \in CommandInputs }
        \cup { Action("llm_call", Str(<<>>), Str(<<>>), Str(<<>>)),
               Action("shell", Str(<<>>), Str(<<>>), Str(<<>>)),
               NotAnObject }

\* actions that validate_actions accepts on their own
CompanionActions ==
    { Action("file_write", Str(<<"C", ".", "ts">>), Str(<<"decl">>), Str(<<>>)),
      Action("command", Str(<<>>), Str(<<>>), Str(<<"ls">>)) }

\* TypeScript files written as comment marks, line breaks and declarations
TokenAtoms == {"//", "/*", "*/", "nl", "decl", "blockc"}

TokenPayloads ==
    { [isList |-> TRUE,
       actions |-> <<Action("file_write", Str(<<"src", "/", "C", ".", "ts">>), Str(c),
                            Str(<<>>))>>] :
        c \in SeqsUpTo(TokenAtoms, MaxTokens) }

PayloadInputs ==
    TokenPayloads \cup
    { [isList |-> TRUE, actions |-> x[2] \o <<x[1]>> \o x[3]] :
        x \in { y \in ProbeActions \X SeqsUpTo(CompanionActions, MaxCompanions)
                                   \X SeqsUpTo(CompanionActions, MaxCompanions) :
                    Len(y[2]) + Len(y[3]) <= MaxCompanions } }
        \cup { [isList |-> TRUE, actions |-> <<>>], [isList |-> FALSE, actions |-> <<>>] }

NoPayload == [isList |-> FALSE, actions |-> <<>>]

(***************************************************************************)
(* core/state_manager.py : AgentState                                      *)
(*                                                                         *)
(* A path is the sequence of its segments below the filesystem root.       *)
(* An entry of action_history keeps the action; the phase and the result   *)
(* stored with it are read by no operation modelled here.                  *)
(***************************************************************************)
NoPhase == "<None>"
NoPath  == <<"<None>">>

PhaseNames == {"", "A", "B", "C"}

\* Path.resolve(): ".." steps to the parent, the root is its own parent
RECURSIVE Resolve(_)
Resolve(p) ==
    IF p = <<>> THEN <<>>
    ELSE LET head == Resolve(SubSeq(p, 1, Len(p) - 1))
         IN  IF Last(p) = ".."
             THEN (IF head = <<>> THEN <<>> ELSE SubSeq(head, 1, Len(head) - 1))
             ELSE Append(head, Last(p))

set_phase_StartsNewHistory(phase_name) ==
    /\ current_phase' = phase_name
    /\ phase_action_count' =
           IF current_phase = phase_name THEN phase_action_count ELSE 0
    /\ phase_repetition_count' =
           [phase_repetition_count EXCEPT ![phase_name] = @ + 1]
    /\ action_history' = IF current_phase = phase_name THEN action_history ELSE <<>>
    /\ UNCHANGED <<completed_phases, iteration_count, pathVars>>

set_phase(phase_name) ==
    /\ current_phase' = phase_name
    /\ phase_action_count' =
           IF current_phase = phase_name THEN phase_action_count ELSE 0
    /\ phase_repetition_count' =
           [phase_repetition_count EXCEPT ![phase_name] = @ + 1]
    /\ UNCHANGED <<completed_phases, action_history, iteration_count, pathVars>>

complete_phase_Forgets(phase_name) ==
    /\ completed_phases' = completed_phases
    /\ UNCHANGED <<current_phase, action_history, iteration_count, phase_action_count,
                   phase_repetition_count, pathVars>>

complete_phase(phase_name) ==
    /\ completed_phases' =
           IF phase_name \in Range(completed_phases) THEN completed_phases
           ELSE Append(completed_phases, phase_name)
    /\ UNCHANGED <<current_phase, action_history, iteration_count, phase_action_count,
                   phase_repetition_count, pathVars>>

register_action_CountsTwice(action) ==
    /\ action_history' = Append(action_history, action)
    /\ phase_action_count' = phase_action_count + 2
    /\ UNCHANGED <<current_phase, completed_phases, iteration_count,
                   phase_repetition_count, pathVars>>

register_action(action) ==
    /\ action_history' = Append(action_history, action)
    /\ phase_action_count' = phase_action_count + 1
    /\ UNCHANGED <<current_phase, completed_phases, iteration_count,
                   phase_repetition_count, pathVars>>

increment_iteration ==
    /\ iteration_count' = iteration_count + 1
    /\ UNCHANGED <<current_phase, completed_phases, action_history, phase_action_count,
                   phase_repetition_count, pathVars>>

reset_phase ==
    /\ phase_action_count' = 0
    /\ UNCHANGED <<current_phase, completed_phases, action_history, iteration_count,
                   phase_repetition_count, pathVars>>

set_task_workspace(path) ==
    /\ task_workspace' = Resolve(path)
    /\ current_workdir' = Resolve(path)
    /\ UNCHANGED <<project_root, countVars>>

set_current_workdir(path) ==
    /\ current_workdir' = Resolve(path)
    /\ UNCHANGED <<task_workspace, project_root, countVars>>

set_project_root(path) ==
    /\ project_root' = Resolve(path)
    /\ current_workdir' = Resolve(path)
    /\ UNCHANGED <<task_workspace, countVars>>

(***************************************************************************)
(* core/loop_guard.py : LoopGuard.check                                    *)
(* Returns "ok" or the rule whose LoopGuardError is raised.                *)
(***************************************************************************)
MAX_GLOBAL_ITERATIONS  == 25
MAX_ACTIONS_PER_PHASE  == 10
MAX_SAME_ACTION_STREAK == 5
MAX_PHASE_REPETITIONS  == 3

\* (e.get("action", {}).get("path") or "").strip().lower()
Target(action) == Lower(Strip(action.path.text))

LastK(history) ==
    SubSeq(history, Len(history) - MAX_SAME_ACTION_STREAK + 1, Len(history))

LoopGuard_check_NoActionCeiling(iterations, actions_in_phase, phase, repetitions, history) ==
    IF iterations > MAX_GLOBAL_ITERATIONS THEN "max_iterations"
    ELSE IF phase \notin {NoPhase, ""} /\ repetitions[phase] > MAX_PHASE_REPETITIONS
    THEN "max_phase_repetitions"
    ELSE IF Len(history) >= MAX_SAME_ACTION_STREAK
    THEN LET last       == LastK(history)
             last_types == {a.type : a \in Range(last)}
             targets    == {Target(a) : a \in Range(last)}
         IN  IF Cardinality(last_types) # 1 THEN "ok"
             ELSE IF last_types \subseteq {"file_write", "file_modify"}
             THEN (IF Cardinality(targets) = 1 /\ targets # {<<>>}
                   THEN "same_file_streak" ELSE "ok")
             ELSE "same_action_streak"
    ELSE "ok"

LoopGuard_check_NoPathComparison(iterations, actions_in_phase, phase, repetitions, history) ==
    IF iterations > MAX_GLOBAL_ITERATIONS THEN "max_iterations"
    ELSE IF actions_in_phase > MAX_ACTIONS_PER_PHASE THEN "max_actions_per_phase"
    ELSE IF phase \notin {NoPhase, ""} /\ repetitions[phase] > MAX_PHASE_REPETITIONS
    THEN "max_phase_repetitions"
    ELSE IF Len(history) >= MAX_SAME_ACTION_STREAK
               /\ Cardinality({a.type : a \in Range(LastK(history))}) = 1
    THEN "same_action_streak"
    ELSE "ok"

LoopGuard_check_SameActionOnly(iterations, actions_in_phase, phase, repetitions, history) ==
    IF iterations > MAX_GLOBAL_ITERATIONS THEN "max_iterations"
    ELSE IF actions_in_phase > MAX_ACTIONS_PER_PHASE THEN "max_actions_per_phase"
    ELSE IF phase \notin {NoPhase, ""} /\ repetitions[phase] > MAX_PHASE_REPETITIONS
    THEN "max_phase_repetitions"
    ELSE IF Len(history) >= MAX_SAME_ACTION_STREAK
    THEN LET last       == LastK(history)
             last_types == {a.type : a \in Range(last)}
             targets    == {Target(a) : a \in Range(last)}
         IN  IF Cardinality(last_types) = 1
             THEN IF last_types \subseteq {"file_write", "file_modify"}
                  THEN IF Cardinality(targets) = 1 /\ targets # {<<>>}
                       THEN "same_file_streak"
                       ELSE "ok"
                  ELSE IF Cardinality(Range(last)) = 1
                       THEN "same_action_streak"
                       ELSE "ok"
             ELSE "ok"
    ELSE "ok"

LoopGuard_check(iterations, actions_in_phase, phase, repetitions, history) ==
    IF iterations > MAX_GLOBAL_ITERATIONS THEN "max_iterations"
    ELSE IF actions_in_phase > MAX_ACTIONS_PER_PHASE THEN "max_actions_per_phase"
    ELSE IF phase \notin {NoPhase, ""} /\ repetitions[phase] > MAX_PHASE_REPETITIONS
    THEN "max_phase_repetitions"
    ELSE IF Len(history) >= MAX_SAME_ACTION_STREAK
    THEN LET last       == LastK(history)
             last_types == {a.type : a \in Range(last)}
             targets    == {Target(a) : a \in Range(last)}
         IN  IF Cardinality(last_types) = 1
             THEN IF last_types \subseteq {"file_write", "file_modify"}
                  THEN IF Cardinality(targets) = 1 /\ targets # {<<>>}
                       THEN "same_file_streak"
                       ELSE "ok"
                  ELSE "same_action_streak"
             ELSE "ok"
    ELSE "ok"

\* The message of the LoopGuardError that check raises under a rule, as the list
\* of its fixed texts and interpolated values (a phase of None reads "None").
\* LoopGuardError is a RuntimeError that holds nothing but this message.
LoopGuardError(rule, phase, history) ==
    LET shown == IF phase = NoPhase THEN "None" ELSE phase
    IN  CASE rule = "max_iterations" ->
                 <<"Loop detectado: se superó el máximo global de iteraciones (", "25", ").">>
          [] rule = "max_actions_per_phase" ->
                 <<"Loop detectado: la fase '", shown, "' superó ", "10", " acciones.">>
          [] rule = "max_phase_repetitions" ->
                 <<"Loop detectado: la fase '", shown, "' se repitió más de ", "3", " veces.">>
          [] rule = "same_file_streak" ->
                 <<"Loop detectado: ", ToString(MAX_SAME_ACTION_STREAK),
                   " escrituras consecutivas sobre el mismo archivo (">>
                     \o Target(Last(history)) \o <<").">>
          [] rule = "same_action_streak" ->
                 <<"Loop detectado: ", ToString(MAX_SAME_ACTION_STREAK),
                   " acciones consecutivas iguales (", Last(history).type, ").">>

(***************************************************************************)
(* core/validator.py : validate_plan                                       *)
(*                                                                         *)
(* Name atoms: the keywords "Fase" "fase" "FASE" "Phase", the digits "1"   *)
(* "2", the separators ":" "-", blanks " " and "  ", words "x" "X" "y".    *)
(* A phase is [ok, name, depsIsList, deps]: ok says that it is an object   *)
(* carrying name, description and depends_on.                              *)
(***************************************************************************)
IsDigit(a) == a \in {"1", "2"}

\* re.sub(r"\s+", " ", s): every run of blanks becomes one " "
RECURSIVE CollapseSpaces(_)
CollapseSpaces(s) ==
    IF s = <<>> THEN <<>>
    ELSE IF IsSpace(s[1])
    THEN <<" ">> \o CollapseSpaces(SubSeq(s, SkipSpaces(s, 1), Len(s)))
    ELSE <<s[1]>> \o CollapseSpaces(Tail(s))

_normalize_phase_ref(value) == Lower(CollapseSpaces(Strip(value)))

\* index after the run of digits that starts at i
RECURSIVE SkipDigits(_, _)
SkipDigits(s, i) == IF i <= Len(s) /\ IsDigit(s[i]) THEN SkipDigits(s, i + 1) ELSE i

NoRef == <<"<None>">>

\* ^(fase|phase)\s+(\d+)(?=\s*[:\-]|\s*$), ignoring case; NoRef when there is no match
_extract_phase_short_ref(name) ==
    LET normalized == CollapseSpaces(Strip(name))
        d          == SkipDigits(normalized, 3)
        after      == SkipSpaces(normalized, d)
    IN  IF /\ Len(normalized) >= 3
           /\ LowerAtom(normalized[1]) \in {"fase", "phase"}
           /\ IsSpace(normalized[2])
           /\ d > 3
           /\ (after > Len(normalized) \/ normalized[after] \in {":", "-"})
        THEN <<LowerAtom(normalized[1]), " ">> \o SubSeq(normalized, 3, d - 1)
        ELSE NoRef

\* aliases[short_ref] = name, filled in plan order: the last phase with the alias wins
AliasOf(phases, short) ==
    LET holders == {i \in 1..Len(phases) : _extract_phase_short_ref(phases[i].name) = short}
    IN  IF short = NoRef \/ holders = {} THEN NoRef
        ELSE phases[CHOOSE i \in holders : \A j \in holders : j <= i].name

_resolve_phase_dependency_AliasFirst(dep, phases) ==
    LET names == {phases[i].name : i \in 1..Len(phases)}
        byNormalized == {n \in names : _normalize_phase_ref(n) = _normalize_phase_ref(dep)}
        alias == AliasOf(phases, _extract_phase_short_ref(dep))
    IN  IF alias # NoRef THEN alias
        ELSE IF dep \in names THEN dep
        ELSE IF byNormalized # {} THEN CHOOSE n \in byNormalized : TRUE
        ELSE NoRef

_resolve_phase_dependency_NoAlias(dep, phases) ==
    LET names == {phases[i].name : i \in 1..Len(phases)}
        byNormalized == {n \in names : _normalize_phase_ref(n) = _normalize_phase_ref(dep)}
    IN  IF dep \in names THEN dep
        ELSE IF byNormalized # {} THEN CHOOSE n \in byNormalized : TRUE
        ELSE NoRef

\* the phase name that dep resolves to, NoRef when it resolves to none
_resolve_phase_dependency(dep, phases) ==
    LET names == {phases[i].name : i \in 1..Len(phases)}
        byNormalized == {n \in names : _normalize_phase_ref(n) = _normalize_phase_ref(dep)}
    IN  IF dep \in names THEN dep
        ELSE IF byNormalized # {} THEN CHOOSE n \in byNormalized : TRUE
        ELSE AliasOf(phases, _extract_phase_short_ref(dep))

\* resolved_graph: per phase with dependencies, in plan order, its resolved dependencies
ResolvedDeps(phases, i) ==
    [k \in 1..Len(phases[i].deps) |-> _resolve_phase_dependency(phases[i].deps[k], phases)]

GraphKeys(phases) == SelectSeq([i \in 1..Len(phases) |-> i], LAMBDA i : phases[i].deps # <<>>)

\* graph.get(node, [])
Neighbors(phases, node) ==
    LET at == {i \in 1..Len(phases) : phases[i].name = node /\ phases[i].deps # <<>>}
    IN  IF at = {} THEN <<>> ELSE ResolvedDeps(phases, CHOOSE i \in at : TRUE)

RECURSIVE dfs_NoVisiting(_, _, _)
RECURSIVE dfsEach_NoVisiting(_, _, _)
dfs_NoVisiting(phases, node, st) ==
    IF st.error \/ node \in st.visited THEN st
    ELSE LET inner == dfsEach_NoVisiting(phases, Neighbors(phases, node),
                                         [st EXCEPT !.visited = @ \cup {node}])
         IN  inner

dfsEach_NoVisiting(phases, nodes, st) ==
    IF nodes = <<>> \/ st.error THEN st
    ELSE dfsEach_NoVisiting(phases, Tail(nodes), dfs_NoVisiting(phases, nodes[1], st))

RECURSIVE dfs(_, _, _)
RECURSIVE dfsEach(_, _, _)
\* dfs(node); st.error is set when the ValidationError of a back edge is raised
dfs(phases, node, st) ==
    IF st.error THEN st
    ELSE IF node \in st.visiting THEN [st EXCEPT !.error = TRUE]
    ELSE IF node \in st.visited THEN st
    ELSE LET inner == dfsEach(phases, Neighbors(phases, node),
                              [st EXCEPT !.visiting = @ \cup {node}])
         IN  IF inner.error THEN inner
             ELSE [inner EXCEPT !.visiting = @ \ {node}, !.visited = @ \cup {node}]

dfsEach(phases, nodes, st) ==
    IF nodes = <<>> \/ st.error THEN st
    ELSE dfsEach(phases, Tail(nodes), dfs(phases, nodes[1], st))

_assert_acyclic_NoBackEdgeCheck(phases) ==
    LET keys == GraphKeys(phases)
        start == [visited |-> {}, visiting |-> {}, error |-> FALSE]
    IN  IF dfsEach_NoVisiting(phases, [k \in 1..Len(keys) |-> phases[keys[k]].name], start).error
        THEN "cycle" ELSE "ok"

_assert_acyclic(phases) ==
    LET keys == GraphKeys(phases)
        start == [visited |-> {}, visiting |-> {}, error |-> FALSE]
    IN  IF dfsEach(phases, [k \in 1..Len(keys) |-> phases[keys[k]].name], start).error
        THEN "cycle" ELSE "ok"

\* the checks of the first loop of validate_plan on phase i
PhaseError(phases, i) ==
    IF ~phases[i].ok THEN "invalid_phase"
    ELSE IF \E j \in 1..(i - 1) : phases[j].name = phases[i].name THEN "duplicate_name"
    ELSE IF \E j \in 1..(i - 1) :
                _normalize_phase_ref(phases[j].name) = _normalize_phase_ref(phases[i].name)
    THEN "ambiguous_name"
    ELSE IF ~phases[i].depsIsList THEN "depends_on_not_list"
    ELSE "ok"

validate_plan(p) ==
    IF ~p.isList \/ p.phases = <<>> THEN "no_phases"
    ELSE LET phases == p.phases
             bad    == {i \in 1..Len(phases) : PhaseError(phases, i) # "ok"}
         IN  IF bad # {}
             THEN PhaseError(phases, CHOOSE i \in bad : \A j \in bad : i <= j)
             ELSE IF \E i \in 1..Len(phases) : NoRef \in Range(ResolvedDeps(phases, i))
             THEN "unknown_dependency"
             ELSE _assert_acyclic(phases)


(***************************************************************************)
(* States in which a component takes no part in the specification at hand. *)
(***************************************************************************)
IdleValidator == payload = NoPayload /\ verdict = "pending"

NoPlan == [isList |-> FALSE, phases |-> <<>>]

IdlePlan == plan = NoPlan /\ planVerdict = "pending"

FreshCounters ==
    /\ current_phase = NoPhase
    /\ completed_phases = <<>>
    /\ action_history = <<>>
    /\ iteration_count = 0
    /\ phase_action_count = 0
    /\ phase_repetition_count = [p \in PhaseNames |-> 0]

FreshPaths ==
    /\ task_workspace = NoPath
    /\ current_workdir = NoPath
    /\ project_root = NoPath

NoCall == [op |-> "none"]

IdleState == FreshCounters /\ FreshPaths /\ lastCall = NoCall /\ guard = "none"

IdleExecutor ==
    /\ batch = <<>>
    /\ cursor = 0
    /\ executed = <<>>
    /\ results = <<>>
    /\ execStatus = "idle"

IdleServe ==
    /\ fix_round = 0
    /\ last_hash = ""
    /\ error_codes_history = <<>>
    /\ builds = <<>>
    /\ fixRequests = <<>>
    /\ serveStatus = "idle"

IdleRun ==
    /\ phaseOrder = <<>>
    /\ started = <<>>
    /\ orchStatus = "idle"

IdleNested ==
    /\ frames = <<>>
    /\ oracleLog = <<>>
    /\ nestResults = <<>>
    /\ nestStatus = "idle"
    /\ files = {}
    /\ handlerLog = <<>>

IdleWorkspaces ==
    /\ now = 0
    /\ workspaces = <<>>
    /\ dirs = {}

NoCoroutine == [pc |-> "none", sites |-> 0, site |-> 0, prompts |-> 0, turn |-> 0,
                responses |-> <<>>]

NumThreads == 2

Threads == 1..NumThreads

IdleRuntime ==
    /\ _RUNTIME_LOOP = 0
    /\ loops = <<>>
    /\ threadPc = [t \in Threads |-> "idle"]
    /\ threadLoop = [t \in Threads |-> 0]
    /\ submitted = <<>>

IdleCaller ==
    /\ callerPc = "idle"
    /\ coro = NoCoroutine
    /\ inFlight = 0
    /\ oracleEvents = <<>>

IdleWeb == IdleCaller /\ IdleRuntime

IdleSteps ==
    /\ rawSteps = <<>>
    /\ steps = <<>>
    /\ step_num = 0
    /\ attempt = 0
    /\ stepLog = <<>>
    /\ stepStatus = "idle"

IdleAutofix ==
    /\ quality_round = 0
    /\ roundFailures = <<>>
    /\ fixContexts = <<>>
    /\ fixPrompts = <<>>
    /\ autofixStatus = "idle"

IdleCreate ==
    /\ create_attempt = 0
    /\ create_cmd = "default"
    /\ create_asks = 0
    /\ createStatus = "idle"

IdleAgent ==
    /\ agent_i = 0
    /\ last_action_hash = ""
    /\ agentStatus = "idle"
    /\ agentPass = [prev |-> "", kind |-> "none", actions |-> <<>>, ran |-> <<>>]

IdleRetries == task = "none" /\ IdleCreate /\ IdleAgent

IdleLate == IdleSteps /\ IdleAutofix /\ IdleRetries

IdleOrchestrator ==
    IdleServe /\ IdleRun /\ IdleNested /\ IdleWorkspaces /\ IdleWeb /\ IdleLate

IdlePlanner ==
    /\ oracle = <<>>
    /\ llmCalls = 0
    /\ prompts = <<>>
    /\ askStatus = "idle"
    /\ askValue = [kind |-> "none", text |-> <<>>]

(***************************************************************************)
(* SpecActions: validate_actions applied to every payload of PayloadInputs *)
(***************************************************************************)
InitActions ==
    /\ payload \in PayloadInputs
    /\ verdict = "pending"
    /\ IdlePlan /\ IdleState /\ IdleExecutor /\ IdlePlanner /\ IdleOrchestrator

ValidateActions ==
    /\ verdict = "pending"
    /\ verdict' = validate_actions(payload)
    /\ UNCHANGED <<payload, planVars, countVars, pathVars, lastCall, guard, execVars, askVars, orchVars>>

NextActions == ValidateActions

SpecActions == InitActions /\ [][NextActions]_vars

\* a \ or / at position i of the path text
IsSep(a) == a \in {"/", "\\"}

\* the path text has a segment that is exactly ".."
HasTraversalSegment(p) ==
    \E i \in 1..(Len(p) - 1) :
        /\ p[i] = "." /\ p[i + 1] = "."
        /\ (i = 1 \/ IsSep(p[i - 1]))
        /\ (i + 1 = Len(p) \/ IsSep(p[i + 2]))

\* leading / or \, or a drive letter directly followed by :/ or :\
HasRootedShape(p) ==
    /\ p # <<>>
    /\ \/ IsSep(p[1])
       \/ (Len(p) >= 3 /\ p[1] \in {"C", "c"} /\ p[2] = ":" /\ IsSep(p[3]))

\* the shapes the claim names: ".." anywhere, leading / or \, a drive letter
HasClaimedShape(p) ==
    /\ p # <<>>
    /\ \/ Contains(p, <<".", ".">>)
       \/ IsSep(p[1])
       \/ (Len(p) >= 2 /\ p[1] \in {"C", "c"} /\ p[2] = ":")

IsFileAction(a) == a.isDict /\ a.type \in {"file_write", "file_modify"} /\ a.path.isStr

Rejected == verdict \notin {"pending", "ok"}

\* C1 (as stated): a payload with a file action whose path contains ".." or starts
\* with /, \ or a drive letter is rejected by validate_actions.
C1_AsStated ==
    (verdict # "pending" /\ payload.isList
        /\ \E i \in 1..Len(payload.actions) :
              IsFileAction(payload.actions[i])
                  /\ HasClaimedShape(payload.actions[i].path.text))
    => Rejected

\* C1 (amended): a payload with a file action whose path has a ".." segment
\* (segments separated by / or \), or starts with / or \ or with a drive letter
\* followed by :/ or :\, is rejected as a whole by validate_actions, wherever the
\* action stands in the payload.
C1_TraversalRejected ==
    (verdict # "pending" /\ payload.isList
        /\ \E i \in 1..Len(payload.actions) :
              IsFileAction(payload.actions[i])
                  /\ (HasTraversalSegment(payload.actions[i].path.text)
                         \/ HasRootedShape(payload.actions[i].path.text)))
    => Rejected

\* a traversal path behind an acceptable first action has been rejected
C1_Witness ==
    /\ verdict = "path_traversal"
    /\ Len(payload.actions) >= 2
    /\ ValidateAction(payload.actions[1]) = "ok"
    /\ HasTraversalSegment(payload.actions[2].path.text)

(***************************************************************************)
(* SpecPaths: the three path pointers of AgentState under any sequence of  *)
(* set_task_workspace / set_current_workdir / set_project_root calls.      *)
(***************************************************************************)
MaxSegments == 2

PathSegments == {"w", "e", ".."}

PathArgs == SeqsUpTo(PathSegments, MaxSegments) \ {<<>>}

InitPaths ==
    /\ IdleValidator /\ IdlePlan /\ IdleState /\ IdleExecutor /\ IdlePlanner /\ IdleOrchestrator

OnlyPathsChange == UNCHANGED <<valVars, planVars, lastCall, guard, execVars, askVars, orchVars>>

SetTaskWorkspace ==
    /\ \E path \in PathArgs : set_task_workspace(path)
    /\ OnlyPathsChange

SetCurrentWorkdir ==
    /\ \E path \in PathArgs : set_current_workdir(path)
    /\ OnlyPathsChange

SetProjectRoot ==
    /\ \E path \in PathArgs : set_project_root(path)
    /\ OnlyPathsChange

NextPaths == SetTaskWorkspace \/ SetCurrentWorkdir \/ SetProjectRoot

SpecPaths == InitPaths /\ [][NextPaths]_vars

\* path p lies in directory dir (or is dir itself)
Inside(p, dir) == Len(dir) <= Len(p) /\ SubSeq(p, 1, Len(dir)) = dir

\* C2: once task_workspace is set, current_workdir and project_root (when set)
\* are paths inside task_workspace.
C2_PointersInsideWorkspace ==
    task_workspace # NoPath =>
        /\ Inside(current_workdir, task_workspace)
        /\ (project_root # NoPath => Inside(project_root, task_workspace))

(***************************************************************************)
(* SpecPlan: validate_plan applied to every plan of PlanInputs.            *)
(***************************************************************************)
MaxPhases == 3
MaxLoosePhases == 2

Fase1x == <<"Fase", " ", "1", ":", " ", "x">>
Fase1y == <<"Fase", " ", "1", " ", "-", " ", "y">>
Fase1 == <<"Fase", " ", "1">>
LowerX == <<"x">>
UpperX == <<"X">>

NameInputs == {Fase1x, Fase1y, Fase1, LowerX, UpperX}

DepListInputs ==
    { <<>>,
      <<Fase1x>>,                        \* exact name
      <<<<"fase", " ", "1">>>>,          \* short alias
      <<<<" ", "x", "  ">>>>,            \* "x" or "X" after normalization, else no phase
      <<<<"FASE", "  ", "1">>, UpperX>> }

Phase(name, deps) == [ok |-> TRUE, name |-> name, depsIsList |-> TRUE, deps |-> deps]

PhaseInputs ==
    { Phase(n, d) : n \in NameInputs, d \in DepListInputs }
        \cup { [ok |-> FALSE, name |-> LowerX, depsIsList |-> TRUE, deps |-> <<>>],
               [ok |-> TRUE, name |-> LowerX, depsIsList |-> FALSE, deps |-> <<>>] }

\* the plan has well-formed phases with pairwise different names
IsDistinctNamePlan(p) ==
    \E k \in 1..MaxPhases : \E n \in [1..k -> NameInputs], d \in [1..k -> DepListInputs] :
        /\ \A i, j \in 1..k : i # j => n[i] # n[j]
        /\ p = [isList |-> TRUE, phases |-> [i \in 1..k |-> Phase(n[i], d[i])]]

\* a short plan of any phases: repeated names, malformed phases, no phase at all
IsLoosePlan(p) ==
    \E ps \in SeqsUpTo(PhaseInputs, MaxLoosePhases) : p = [isList |-> TRUE, phases |-> ps]

InitPlan ==
    /\ (IsDistinctNamePlan(plan) \/ IsLoosePlan(plan) \/ plan = NoPlan)
    /\ planVerdict = "pending"
    /\ IdleValidator /\ IdleState /\ IdleExecutor /\ IdlePlanner /\ IdleOrchestrator

ValidatePlan ==
    /\ planVerdict = "pending"
    /\ planVerdict' = validate_plan(plan)
    /\ UNCHANGED <<plan, valVars, countVars, pathVars, lastCall, guard, execVars, askVars, orchVars>>

NextPlan == ValidatePlan

SpecPlan == InitPlan /\ [][NextPlan]_vars

\* the plan is a non-empty list of objects that carry name, description and a list depends_on
WellFormedPlan(p) ==
    /\ p.isList /\ p.phases # <<>>
    /\ \A i \in 1..Len(p.phases) : p.phases[i].ok /\ p.phases[i].depsIsList

\* no two phases have the same name, compared after case/whitespace normalization
DistinctNormalizedNames(p) ==
    \A i, j \in 1..Len(p.phases) :
        i # j => _normalize_phase_ref(p.phases[i].name) # _normalize_phase_ref(p.phases[j].name)

\* ref names phase n exactly, after normalization, or by its short "fase N" prefix
Matches(ref, n) ==
    \/ ref = n
    \/ _normalize_phase_ref(ref) = _normalize_phase_ref(n)
    \/ (_extract_phase_short_ref(ref) # NoRef
           /\ _extract_phase_short_ref(ref) = _extract_phase_short_ref(n))

AllReferencesResolve(p) ==
    \A i \in 1..Len(p.phases) : \A k \in 1..Len(p.phases[i].deps) :
        \E j \in 1..Len(p.phases) : Matches(p.phases[i].deps[k], p.phases[j].name)

\* the edges of the resolved dependency graph
Edges(p) ==
    UNION { { <<p.phases[i].name, _resolve_phase_dependency(p.phases[i].deps[k], p.phases)>> :
                k \in 1..Len(p.phases[i].deps) } : i \in 1..Len(p.phases) }

\* the nodes reached from the set S in at most n steps along E
RECURSIVE ReachIn(_, _, _)
ReachIn(E, S, n) ==
    IF n = 0 THEN S
    ELSE ReachIn(E, S \cup {e[2] : e \in {f \in E : f[1] \in S}}, n - 1)

\* some node reaches itself along one or more edges
Cyclic(E) == \E e \in E : e[1] \in ReachIn(E, {e[2]}, Cardinality(E))

ExactNamesDistinct(p) ==
    \A i, j \in 1..Len(p.phases) : i # j => p.phases[i].name # p.phases[j].name

\* C3 (as stated): a plan (phases with unique names) is accepted iff every reference
\* resolves and the resolved graph is acyclic.
C3_AsStated ==
    (planVerdict # "pending" /\ WellFormedPlan(plan) /\ ExactNamesDistinct(plan))
    => (planVerdict = "ok" <=> (AllReferencesResolve(plan) /\ ~Cyclic(Edges(plan))))

\* C3 (amended): a plan that is a non-empty list of well-formed phases whose names
\* stay pairwise distinct after case/whitespace normalization is accepted iff every
\* depends_on reference resolves to a phase and the resolved graph is acyclic.
C3_AcceptsIffResolvedAcyclic ==
    (planVerdict # "pending" /\ WellFormedPlan(plan) /\ DistinctNormalizedNames(plan))
    => (planVerdict = "ok" <=> (AllReferencesResolve(plan) /\ ~Cyclic(Edges(plan))))

\* a plan whose dependency is written as a short alias has been accepted
C3_Witness ==
    /\ planVerdict = "ok"
    /\ Len(plan.phases) >= 2
    /\ \E i \in 1..Len(plan.phases) :
          /\ plan.phases[i].deps = <<<<"fase", " ", "1">>>>
          /\ \A j \in 1..Len(plan.phases) :
                _normalize_phase_ref(plan.phases[j].name) # <<"fase", " ", "1">>

\* the phase names that ref names by the first of the rules exact name, normalized
\* name, short alias that names any phase of the plan
FirstRuleMatches(ref, p) ==
    LET names      == {p.phases[j].name : j \in 1..Len(p.phases)}
        exact      == {n \in names : n = ref}
        normalized == {n \in names : _normalize_phase_ref(n) = _normalize_phase_ref(ref)}
        aliased    == {n \in names : /\ _extract_phase_short_ref(ref) # NoRef
                                      /\ _extract_phase_short_ref(n) = _extract_phase_short_ref(ref)}
    IN  IF exact # {} THEN exact ELSE IF normalized # {} THEN normalized ELSE aliased

\* ref is the short "Fase N" prefix of the name n, which goes on after a separator
IsShortPrefixOf(ref, n) ==
    /\ _extract_phase_short_ref(n) = _normalize_phase_ref(ref)
    /\ _normalize_phase_ref(n) # _normalize_phase_ref(ref)

\* C22: a well-formed plan with pairwise distinct normalized names, whose references
\* all name a phase and whose resolved graph has no cycle, is accepted also when a
\* reference is the short "Fase N" prefix of a phase name; and in an accepted plan
\* every reference is bound to a phase named by the first matching rule in the
\* order exact name, normalized name, short alias.
C22_ShortAliasAcceptedInRuleOrder ==
    planVerdict # "pending" =>
        /\ (/\ WellFormedPlan(plan) /\ DistinctNormalizedNames(plan)
            /\ AllReferencesResolve(plan) /\ ~Cyclic(Edges(plan))
            /\ \E i, j \in 1..Len(plan.phases) : \E k \in 1..Len(plan.phases[i].deps) :
                  IsShortPrefixOf(plan.phases[i].deps[k], plan.phases[j].name))
           => planVerdict = "ok"
        /\ planVerdict = "ok" =>
              \A i \in 1..Len(plan.phases) : \A k \in 1..Len(plan.phases[i].deps) :
                  _resolve_phase_dependency(plan.phases[i].deps[k], plan.phases)
                      \in FirstRuleMatches(plan.phases[i].deps[k], plan)

\* an accepted plan holds "Fase 1" and after it "Fase 1: x", and a reference "fase 1"
\* that the normalized rule binds to the former although the alias names the latter
C22_Witness ==
    /\ planVerdict = "ok"
    /\ \E i, j, h \in 1..Len(plan.phases) :
          /\ i < j
          /\ plan.phases[i].name = Fase1 /\ plan.phases[j].name = Fase1x
          /\ plan.phases[h].deps = <<<<"fase", " ", "1">>>>
          /\ AliasOf(plan.phases, <<"fase", " ", "1">>) = Fase1x
          /\ _resolve_phase_dependency(plan.phases[h].deps[1], plan.phases) = Fase1

\* C4: no plan whose resolved dependency graph has a cycle is accepted.
C4_CyclicPlanRejected ==
    (planVerdict # "pending" /\ plan.isList /\ Cyclic(Edges(plan)))
    => planVerdict # "ok"

\* a cycle that closes only through an alias or a normalized reference has been rejected
C4_Witness ==
    /\ planVerdict = "cycle"
    /\ Len(plan.phases) >= 2
    /\ \A i \in 1..Len(plan.phases) : plan.phases[i].deps # <<>>
    /\ \A i \in 1..Len(plan.phases) : \A k \in 1..Len(plan.phases[i].deps) :
          \A j \in 1..Len(plan.phases) : plan.phases[i].deps[k] # plan.phases[j].name

(***************************************************************************)
(* SpecGuard: register_action and LoopGuard.check on one AgentState, for   *)
(* the same-action streak rule.  guard holds the outcome of the check of   *)
(* the current state, "none" when the state changed since.                 *)
(*                                                                         *)
(* File names are interchangeable for LoopGuard: a registered action names *)
(* a path already in the history, the next unused file name, or the next   *)
(* unused spelling of "a.ts".                                              *)
(***************************************************************************)
MaxHistory == 6

FileNames == << <<"a.ts">>, <<"b.ts">>, <<"c.ts">>, <<"d.ts">>, <<"e.ts">>, <<"f.ts">> >>

\* spellings of a.ts that differ in letter case or surrounding blanks
Spellings == << <<"A.ts">>, <<" ", "a.ts">>, <<"a.ts", " ">>, <<" ", "A.ts">> >>

BlankPath == <<" ">>

WriteOf(type, pathText) == Action(type, Str(pathText), Str(<<"decl">>), Str(<<>>))

CommandOf(words) == Action("command", Str(<<>>), Str(<<>>), Str(words))

UsedPaths(history) == {history[i].path.text : i \in 1..Len(history)} \ {<<>>}

\* the first entry of the list that the history does not use yet, if any
FirstUnused(list, history) ==
    LET free == {i \in 1..Len(list) : list[i] \notin UsedPaths(history)}
    IN  IF free = {} THEN {} ELSE {list[CHOOSE i \in free : \A j \in free : i <= j]}

PathChoices(history) ==
    UsedPaths(history) \cup FirstUnused(FileNames, history)
        \cup FirstUnused(Spellings, history) \cup {BlankPath}

\* commands and prompts are interchangeable as well: a registered command is
\* "ls" or the next unused command, and a registered llm_call asks a prompt
\* that differs from those of the MAX_SAME_ACTION_STREAK - 1 actions before it
CommandTexts == << <<"ls">>, <<"pwd">>, <<"ng", " ", "build">>, <<"ng", " ", "test">>,
                   <<"git", " ", "status">> >>

PromptTexts == << <<"p1">>, <<"p2">>, <<"p3">>, <<"p4">>, <<"p5">> >>

\* an llm_call action with its prompt; the keys it lacks read as empty
LlmCallOf(words) ==
    [isDict |-> TRUE, type |-> "llm_call", path |-> Str(<<>>), content |-> Str(<<>>),
     command |-> Str(<<>>), prompt |-> Str(words)]

NextUnused(list, used) ==
    LET free == {i \in 1..Len(list) : list[i] \notin used}
    IN  IF free = {} THEN {} ELSE {list[CHOOSE i \in free : \A j \in free : i <= j]}

CommandChoices(history) ==
    {CommandTexts[1]}
        \cup NextUnused(CommandTexts, {history[i].command.text :
                                          i \in {j \in 1..Len(history) : history[j].type = "command"}})

NthPrompt(n) == PromptTexts[(n % Len(PromptTexts)) + 1]

\* a file_modify changes the file that the action before it wrote or changed
ModifyChoices(history) ==
    IF history # <<>> /\ Last(history).type \in {"file_write", "file_modify"}
          /\ Last(history).path.text \in Range(FileNames)
    THEN {Last(history).path.text}
    ELSE {}

GuardActionInputs(history) ==
    {WriteOf("file_write", p) : p \in PathChoices(history)}
        \cup {WriteOf("file_modify", p) : p \in ModifyChoices(history)}
        \cup {CommandOf(c) : c \in CommandChoices(history)}
        \cup {LlmCallOf(NthPrompt(Len(history)))}

InitGuard ==
    /\ FreshCounters /\ FreshPaths /\ lastCall = NoCall /\ guard = "none"
    /\ IdleValidator /\ IdlePlan /\ IdleExecutor /\ IdlePlanner /\ IdleOrchestrator

OnlyCountersChange == UNCHANGED <<valVars, planVars, execVars, askVars, orchVars>>

RegisterAction ==
    /\ Len(action_history) < MaxHistory
    /\ \E a \in GuardActionInputs(action_history) :
          /\ register_action(a)
          /\ lastCall' = [op |-> "register_action"]
    /\ guard' = "none"
    /\ OnlyCountersChange

CheckLoopGuard ==
    /\ guard = "none"
    /\ guard' = LoopGuard_check(iteration_count, phase_action_count, current_phase,
                                phase_repetition_count, action_history)
    /\ UNCHANGED <<countVars, pathVars, lastCall>>
    /\ OnlyCountersChange

NextGuard == RegisterAction \/ CheckLoopGuard

SpecGuard == InitGuard /\ [][NextGuard]_vars

WithinCeilings ==
    /\ iteration_count <= MAX_GLOBAL_ITERATIONS
    /\ phase_action_count <= MAX_ACTIONS_PER_PHASE
    /\ \A p \in PhaseNames : phase_repetition_count[p] <= MAX_PHASE_REPETITIONS

\* number of trailing file_write entries whose path is spelled like that of the last entry
SamePathRun(h) ==
    LET runs == {n \in 0..Len(h) : \A i \in (Len(h) - n + 1)..Len(h) :
                    h[i].type = "file_write" /\ h[i].path.text = Last(h).path.text}
    IN  CHOOSE n \in runs : \A m \in runs : m <= n

\* number of trailing file_write entries that name the same file as the last entry
\* (names compared without surrounding blanks and letter case)
SameFileRun(h) ==
    LET runs == {n \in 0..Len(h) : \A i \in (Len(h) - n + 1)..Len(h) :
                    h[i].type = "file_write" /\ Target(h[i]) = Target(Last(h))}
    IN  CHOOSE n \in runs : \A m \in runs : m <= n

\* C5: with the other counters within their ceilings, the check that follows the
\* 5th consecutive file_write to one path raises, and the checks that follow the
\* 1st to 4th write of such a streak do not.
C5_SamePathStreakRaises ==
    (guard # "none" /\ WithinCeilings) =>
        /\ (SamePathRun(action_history) >= MAX_SAME_ACTION_STREAK => guard # "ok")
        /\ (SamePathRun(action_history) >= 1
               /\ SameFileRun(action_history) < MAX_SAME_ACTION_STREAK => guard = "ok")

LastKAreWrites(h) ==
    /\ Len(h) >= MAX_SAME_ACTION_STREAK
    /\ \A a \in Range(LastK(h)) : a.type = "file_write"

MaxEarlyIterations == 2

PhaseArgs == {"", "A"}

NthFile(n) == FileNames[(n % Len(FileNames)) + 1]

InitCounters ==
    /\ current_phase = NoPhase
    /\ completed_phases = <<>>
    /\ action_history = <<>>
    /\ iteration_count \in {0, MAX_GLOBAL_ITERATIONS - 1}
    /\ phase_action_count = 0
    /\ phase_repetition_count = [p \in PhaseNames |-> 0]
    /\ FreshPaths /\ lastCall = NoCall /\ guard = "none"
    /\ IdleValidator /\ IdlePlan /\ IdleExecutor /\ IdlePlanner /\ IdleOrchestrator

SetPhase ==
    /\ \E p \in PhaseArgs :
          /\ phase_repetition_count[p] <= MAX_PHASE_REPETITIONS
          /\ set_phase(p)
          /\ lastCall' = [op |-> "set_phase", phase |-> p]
    /\ guard' = "none"
    /\ OnlyCountersChange

CompletePhase ==
    /\ current_phase # NoPhase
    /\ complete_phase(current_phase)
    /\ lastCall' = [op |-> "complete_phase", phase |-> current_phase]
    /\ guard' = "none"
    /\ OnlyCountersChange

ResetPhase ==
    /\ reset_phase
    /\ lastCall' = [op |-> "reset_phase"]
    /\ guard' = "none"
    /\ OnlyCountersChange

IncrementIteration ==
    /\ iteration_count <= MAX_GLOBAL_ITERATIONS
    /\ (iteration_count < MaxEarlyIterations
           \/ iteration_count >= MAX_GLOBAL_ITERATIONS - 1)
    /\ increment_iteration
    /\ lastCall' = [op |-> "increment_iteration"]
    /\ guard' = "none"
    /\ OnlyCountersChange

RegisterDistinctWrite ==
    /\ Len(action_history) <= MAX_ACTIONS_PER_PHASE
    /\ register_action(WriteOf("file_write", NthFile(Len(action_history))))
    /\ lastCall' = [op |-> "register_action"]
    /\ guard' = "none"
    /\ OnlyCountersChange

NextCounters ==
    \/ SetPhase
    \/ CompletePhase
    \/ ResetPhase
    \/ IncrementIteration
    \/ RegisterDistinctWrite
    \/ CheckLoopGuard

SpecCounters == InitCounters /\ [][NextCounters]_vars

\* C7: the check raises whenever iteration_count exceeds 25, phase_action_count
\* exceeds 10 or the repetition count of the current phase exceeds 3, and each of
\* the three rules fires only when its counter is above its ceiling.
C7_CounterRules ==
    guard # "none" =>
        /\ (\/ iteration_count > MAX_GLOBAL_ITERATIONS
            \/ phase_action_count > MAX_ACTIONS_PER_PHASE
            \/ (current_phase # NoPhase
                   /\ phase_repetition_count[current_phase] > MAX_PHASE_REPETITIONS))
           => guard # "ok"
        /\ guard = "max_iterations" => iteration_count > MAX_GLOBAL_ITERATIONS
        /\ guard = "max_actions_per_phase" => phase_action_count > MAX_ACTIONS_PER_PHASE
        /\ guard = "max_phase_repetitions" =>
               (current_phase # NoPhase
                   /\ phase_repetition_count[current_phase] > MAX_PHASE_REPETITIONS)

(***************************************************************************)
(* SpecExec: ActionExecutor.execute_actions on one AgentState.             *)
(*                                                                         *)
(* A phase is entered with set_phase and a validated batch is executed in  *)
(* it.  An item of the batch is a top-level action together with the list  *)
(* of actions that the oracle's response embeds when the action is an      *)
(* llm_call.  The nested actions are validated and executed first and are  *)
(* logged in action_history without being counted; the top-level action is *)
(* then registered with register_action.  LoopGuard.check runs after every *)
(* action, nested or not, and its error aborts the batch.                  *)
(* executed lists the actions executed by the running batch, in order, and *)
(* marks the nested ones.                                                  *)
(***************************************************************************)
MaxBatch  == 12
MaxMixed  == 1
MaxNested == 3

ExecPhases == {"A", "B"}

SourceFile(stem, i) == <<"src", "/", "app", "/", stem \o ToString(i), ".", "ts">>

Item(action, response) == [action |-> action, response |-> response]

WriteItem(i) == Item(WriteOf("file_write", SourceFile("file_", i)), <<>>)

NestedWrites(n) == [i \in 1..n |-> WriteOf("file_write", SourceFile("nested_", i))]

LlmCall == Action("llm_call", Str(<<>>), Str(<<>>), Str(<<>>))

ProtectedWrite == WriteOf("file_write", <<"main", ".", "ts">>)

\* a batch of n writes to n different files
WriteBatch(n) == [i \in 1..n |-> WriteItem(i - 1)]

MixedItems ==
    {WriteItem(0)} \cup {Item(LlmCall, NestedWrites(n)) : n \in 0..MaxNested}
                   \cup {Item(LlmCall, <<ProtectedWrite>>)}

BatchInputs ==
    {WriteBatch(n) : n \in 1..MaxBatch} \cup (SeqsUpTo(MixedItems, MaxMixed) \ {<<>>})

\* the nested actions that the executor runs for an item: those of a response
\* that embeds a payload which validate_actions accepts
NestedOf(item) ==
    IF item.action.type = "llm_call"
          /\ validate_actions([isList |-> TRUE, actions |-> item.response]) = "ok"
    THEN item.response
    ELSE <<>>

\* the nested actions of the item under execution that have been executed
RECURSIVE NestedDone(_)
NestedDone(done) ==
    IF done = <<>> \/ ~Last(done).nested THEN 0
    ELSE 1 + NestedDone(SubSeq(done, 1, Len(done) - 1))

log_nested_action(action) ==
    /\ action_history' = Append(action_history, action)
    /\ UNCHANGED <<current_phase, completed_phases, iteration_count, phase_action_count,
                   phase_repetition_count, pathVars>>

CheckedAfterAction ==
    guard' = LoopGuard_check(iteration_count', phase_action_count', current_phase',
                             phase_repetition_count', action_history')

InitExec == IdleState /\ IdleValidator /\ IdlePlan /\ IdleExecutor /\ IdlePlanner /\ IdleOrchestrator

OnlyExecutionChanges == UNCHANGED <<valVars, planVars, lastCall, askVars, orchVars>>

BeginPhase ==
    /\ execStatus \in {"idle", "done"}
    /\ \E p \in ExecPhases :
          /\ phase_repetition_count[p] = 0
          /\ set_phase(p)
    /\ execStatus' = "ready"
    /\ guard' = "none"
    /\ UNCHANGED <<batch, cursor, executed, results>>
    /\ OnlyExecutionChanges

StartBatch ==
    /\ execStatus = "ready"
    /\ batch' \in BatchInputs
    /\ cursor' = 0
    /\ executed' = <<>>
    /\ results' = <<>>
    /\ execStatus' = "running"
    /\ UNCHANGED <<countVars, pathVars, guard>>
    /\ OnlyExecutionChanges

ExecNested ==
    /\ execStatus = "running"
    /\ LET item == batch[cursor + 1]
           k    == NestedDone(executed) + 1
       IN  /\ k <= Len(NestedOf(item))
           /\ log_nested_action(NestedOf(item)[k])
           /\ executed' = Append(executed, [action |-> NestedOf(item)[k], nested |-> TRUE])
    /\ CheckedAfterAction
    /\ execStatus' = IF guard' = "ok" THEN "running" ELSE "ExecutorError"
    /\ UNCHANGED <<batch, cursor, results>>
    /\ OnlyExecutionChanges

ExecTopLevel ==
    /\ execStatus = "running"
    /\ LET item == batch[cursor + 1]
       IN  /\ NestedDone(executed) = Len(NestedOf(item))
           /\ register_action(item.action)
           /\ executed' = Append(executed, [action |-> item.action, nested |-> FALSE])
           /\ results' = Append(results, [ok |-> NestedOf(item) = item.response])
    /\ cursor' = cursor + 1
    /\ CheckedAfterAction
    /\ execStatus' = IF guard' # "ok" THEN "ExecutorError"
                     ELSE IF cursor' = Len(batch) THEN "done"
                     ELSE "running"
    /\ UNCHANGED batch
    /\ OnlyExecutionChanges

NextExec == BeginPhase \/ StartBatch \/ ExecNested \/ ExecTopLevel

SpecExec == InitExec /\ [][NextExec]_vars

IsWriteBatch(b) == \A i \in 1..Len(b) : b[i].action.type = "file_write"

DistinctPaths(b) ==
    \A i, j \in 1..Len(b) : i # j => Target(b[i].action) # Target(b[j].action)

ActionsOf(done) == [i \in 1..Len(done) |-> done[i].action]

HistoryTail(n) == SubSeq(action_history, Len(action_history) - n + 1, Len(action_history))

\* C8: Loop Guard has passed after every action of a batch that is still running
\* or has finished, and a batch of more than 10 writes to distinct files in one
\* phase ends in an error with phase_action_count = 11, its first 11 actions
\* registered and nothing after them executed or registered.
C8_GuardAfterEveryAction ==
    /\ (execStatus \in {"running", "done"} /\ executed # <<>>) =>
           /\ guard = "ok"
           /\ phase_action_count <= MAX_ACTIONS_PER_PHASE
    /\ (/\ execStatus \in {"done", "ExecutorError"}
        /\ IsWriteBatch(batch) /\ DistinctPaths(batch)
        /\ Len(batch) > MAX_ACTIONS_PER_PHASE)
       => /\ execStatus = "ExecutorError"
          /\ guard = "max_actions_per_phase"
          /\ phase_action_count = MAX_ACTIONS_PER_PHASE + 1
          /\ cursor = MAX_ACTIONS_PER_PHASE + 1
          /\ ActionsOf(executed) =
                 [i \in 1..(MAX_ACTIONS_PER_PHASE + 1) |-> batch[i].action]
          /\ HistoryTail(MAX_ACTIONS_PER_PHASE + 1) = ActionsOf(executed)

C8_Witness ==
    /\ execStatus = "ExecutorError"
    /\ IsWriteBatch(batch) /\ DistinctPaths(batch)
    /\ Len(batch) > MAX_ACTIONS_PER_PHASE + 1
    /\ phase_action_count = MAX_ACTIONS_PER_PHASE + 1

TopLevelCount(done) == Cardinality({i \in 1..Len(done) : ~done[i].nested})

RECURSIVE ExpectedLog(_)
ExpectedLog(b) ==
    IF b = <<>> THEN <<>>
    ELSE ExpectedLog(SubSeq(b, 1, Len(b) - 1)) \o NestedOf(Last(b)) \o <<Last(b).action>>

\* C9: within a phase, phase_action_count is the number of top-level actions
\* executed, while action_history has grown by every action executed, nested
\* ones included; a batch that ran to its end has added 1 to phase_action_count
\* and n + 1 entries to action_history for each llm_call with n nested actions.
C9_NestedLoggedNotCounted ==
    execStatus \in {"running", "done", "ExecutorError"} =>
        /\ phase_action_count = TopLevelCount(executed)
        /\ Len(action_history) >= Len(executed)
        /\ HistoryTail(Len(executed)) = ActionsOf(executed)
        /\ execStatus = "done" =>
               /\ phase_action_count = Len(batch)
               /\ ActionsOf(executed) = ExpectedLog(batch)

C9_Witness ==
    /\ execStatus = "done"
    /\ batch = <<Item(LlmCall, NestedWrites(MaxNested))>>
    /\ MaxNested > 0
    /\ phase_action_count = 1
    /\ Len(action_history) = MaxNested + 1

(***************************************************************************)
(* core/planner.py : _extract_json and _ask_json                           *)
(*                                                                         *)
(* A response is a sequence of atoms: the characters { } [ ] : , " \ and   *)
(* blank, the digit "1", and the words "content" "k" "x", which hold none  *)
(* of these characters.  json.loads is modelled on this alphabet: objects, *)
(* arrays, strings with the escapes \" \\ \/, and numbers made of digits.  *)
(* A parsed value is kept as its kind and its text without the blanks      *)
(* between tokens; the text of an object that repeats a key keeps every    *)
(* pair, where json.loads keeps the last one.                              *)
(***************************************************************************)
MAX_RETRIES == 3

Q  == "\""
BS == "\\"

At(s, i) == IF i >= 1 /\ i <= Len(s) THEN s[i] ELSE "<eof>"

\* index of the quote that closes the string whose first character is at i;
\* 0 when the string is not terminated or holds an invalid escape
RECURSIVE StringEnd(_, _)
StringEnd(s, i) ==
    IF i > Len(s) THEN 0
    ELSE IF s[i] = Q THEN i
    ELSE IF s[i] = BS
    THEN (IF At(s, i + 1) \in {Q, BS, "/"} THEN StringEnd(s, i + 2) ELSE 0)
    ELSE StringEnd(s, i + 1)

RECURSIVE NumberEnd(_, _)
NumberEnd(s, i) == IF At(s, i) = "1" THEN NumberEnd(s, i + 1) ELSE i

ParseFail == [ok |-> FALSE, next |-> 0]
ParsedTo(n) == [ok |-> TRUE, next |-> n]

\* the JSON value that starts at i: whether there is one and where it ends
RECURSIVE ParseValue(_, _), ParseMembers(_, _), ParseElements(_, _)
ParseValue(s, i) ==
    CASE At(s, i) = "{" ->
             LET j == SkipSpaces(s, i + 1)
             IN  IF At(s, j) = "}" THEN ParsedTo(j + 1) ELSE ParseMembers(s, j)
      [] At(s, i) = "[" ->
             LET j == SkipSpaces(s, i + 1)
             IN  IF At(s, j) = "]" THEN ParsedTo(j + 1) ELSE ParseElements(s, j)
      [] At(s, i) = Q ->
             LET e == StringEnd(s, i + 1)
             IN  IF e = 0 THEN ParseFail ELSE ParsedTo(e + 1)
      [] At(s, i) = "1" -> ParsedTo(NumberEnd(s, i))
      [] OTHER -> ParseFail

ParseMembers(s, i) ==
    IF At(s, i) # Q THEN ParseFail
    ELSE LET e == StringEnd(s, i + 1)
             c == SkipSpaces(s, e + 1)
             v == ParseValue(s, SkipSpaces(s, c + 1))
             m == SkipSpaces(s, v.next)
         IN  IF e = 0 \/ At(s, c) # ":" THEN ParseFail
             ELSE IF ~v.ok THEN ParseFail
             ELSE IF At(s, m) = "}" THEN ParsedTo(m + 1)
             ELSE IF At(s, m) = "," THEN ParseMembers(s, SkipSpaces(s, m + 1))
             ELSE ParseFail

ParseElements(s, i) ==
    LET v == ParseValue(s, i)
        m == SkipSpaces(s, v.next)
    IN  IF ~v.ok THEN ParseFail
        ELSE IF At(s, m) = "]" THEN ParsedTo(m + 1)
        ELSE IF At(s, m) = "," THEN ParseElements(s, SkipSpaces(s, m + 1))
        ELSE ParseFail

\* the text of a value without the blanks outside its strings
RECURSIVE Compact(_, _, _)
Compact(s, i, inString) ==
    IF i > Len(s) THEN <<>>
    ELSE IF inString /\ s[i] = BS
    THEN SubSeq(s, i, i + 1) \o Compact(s, i + 2, inString)
    ELSE IF s[i] = Q THEN <<Q>> \o Compact(s, i + 1, ~inString)
    ELSE IF ~inString /\ IsSpace(s[i]) THEN Compact(s, i + 1, inString)
    ELSE <<s[i]>> \o Compact(s, i + 1, inString)

KindOf(a) ==
    CASE a = "{" -> "dict" [] a = "[" -> "list" [] a = Q -> "str" [] OTHER -> "number"

NoValue == [kind |-> "none", text |-> <<>>]

json_loads(text) ==
    LET i == SkipSpaces(text, 1)
        r == ParseValue(text, i)
    IN  IF r.ok /\ SkipSpaces(text, r.next) > Len(text)
        THEN [ok |-> TRUE, value |-> [kind |-> KindOf(At(text, i)),
                                      text |-> Compact(text, 1, FALSE)]]
        ELSE [ok |-> FALSE, value |-> NoValue]

RECURSIVE IndexFrom(_, _, _)
IndexFrom(s, a, i) ==
    IF i > Len(s) THEN 0 ELSE IF s[i] = a THEN i ELSE IndexFrom(s, a, i + 1)

RECURSIVE LastIndex(_, _, _)
LastIndex(s, a, i) ==
    IF i < 1 THEN 0 ELSE IF s[i] = a THEN i ELSE LastIndex(s, a, i - 1)

\* found is FALSE where the code raises JSONDecodeError("No JSON object found")
_extract_braced_json(text) ==
    LET start == IndexFrom(text, "{", 1)
        end   == LastIndex(text, "}", Len(text))
    IN  IF start = 0 \/ end = 0 \/ end <= start
        THEN [found |-> FALSE, text |-> <<>>]
        ELSE [found |-> TRUE, text |-> SubSeq(text, start, end)]

key_pat == <<Q, "content", Q>>

RECURSIVE FindKey(_, _)
FindKey(src, i) ==
    IF i + 2 > Len(src) THEN 0
    ELSE IF SubSeq(src, i, i + 2) = key_pat THEN i
    ELSE FindKey(src, i + 1)

\* the quote after the bracketed value that starts at the opener, 0 when none
RECURSIVE BalancedEnd(_, _, _, _, _)
BalancedEnd(src, scan, balance, opener, closer) ==
    IF scan > Len(src) THEN 0
    ELSE IF src[scan] = opener THEN BalancedEnd(src, scan + 1, balance + 1, opener, closer)
    ELSE IF src[scan] = closer
    THEN LET nq == SkipSpaces(src, scan + 1)
         IN  IF balance - 1 = 0 /\ At(src, nq) = Q THEN nq
             ELSE BalancedEnd(src, scan + 1, balance - 1, opener, closer)
    ELSE BalancedEnd(src, scan + 1, balance, opener, closer)

\* the first quote followed, after blanks, by the end, a comma or a brace
RECURSIVE PlainEnd(_, _)
PlainEnd(src, scan) ==
    IF scan > Len(src) THEN 0
    ELSE IF src[scan] = Q
               /\ LET nxt == SkipSpaces(src, scan + 1)
                  IN  nxt > Len(src) \/ src[nxt] \in {",", "}"}
    THEN scan
    ELSE PlainEnd(src, scan + 1)

\* raw_val.replace("\\", "\\\\").replace("\"", "\\\"")
RECURSIVE Escape(_)
Escape(s) ==
    IF s = <<>> THEN <<>>
    ELSE IF s[1] = BS THEN <<BS, BS>> \o Escape(Tail(s))
    ELSE IF s[1] = Q THEN <<BS, Q>> \o Escape(Tail(s))
    ELSE <<s[1]>> \o Escape(Tail(s))

RECURSIVE RepairFrom(_, _, _, _)
RepairFrom(src, i, out, changed) ==
    IF i > Len(src) THEN [out |-> out, changed |-> changed]
    ELSE LET k == FindKey(src, i)
         IN  IF k = 0
             THEN [out |-> out \o SubSeq(src, i, Len(src)), changed |-> changed]
             ELSE LET j1   == SkipSpaces(src, k + 3)
                      j2   == IF At(src, j1) = ":" THEN j1 + 1 ELSE j1
                      j3   == SkipSpaces(src, j2)
                      out1 == out \o SubSeq(src, i, j3 - 1)
                      value_start == j3 + 1
                      end_q == IF At(src, value_start) = "{"
                               THEN BalancedEnd(src, value_start, 0, "{", "}")
                               ELSE IF At(src, value_start) = "["
                               THEN BalancedEnd(src, value_start, 0, "[", "]")
                               ELSE PlainEnd(src, value_start)
                      raw_val == SubSeq(src, value_start, end_q - 1)
                  IN  IF At(src, j3) # Q THEN RepairFrom(src, j3, out1, changed)
                      ELSE IF end_q = 0
                      THEN [out |-> out1 \o SubSeq(src, j3, Len(src)), changed |-> changed]
                      ELSE RepairFrom(src, end_q + 1,
                                      out1 \o <<Q>> \o Escape(raw_val) \o <<Q>>,
                                      changed \/ Escape(raw_val) # raw_val)

_repair_unescaped_content_quotes(text) ==
    LET r == RepairFrom(text, 1, <<>>, FALSE)
    IN  IF r.changed THEN r.out ELSE text

NoResponse == [isNone |-> TRUE, text |-> <<>>]
Response(text) == [isNone |-> FALSE, text |-> text]

Extracted(value, via) == [ok |-> TRUE, value |-> value, via |-> via]
ExtractError(error)   == [ok |-> FALSE, value |-> NoValue, via |-> error]

\* ok with the parsed value and the strategy that produced it, or the error raised
_extract_json(raw) ==
    LET text      == Strip(IF raw.isNone THEN <<>> ELSE raw.text)
        candidate == _extract_braced_json(text)
        repaired  == _repair_unescaped_content_quotes(candidate.text)
    IN  IF json_loads(text).ok THEN Extracted(json_loads(text).value, "as_is")
        ELSE IF ~candidate.found THEN ExtractError("no_json_object")
        ELSE IF json_loads(candidate.text).ok
        THEN Extracted(json_loads(candidate.text).value, "braced")
        ELSE IF json_loads(repaired).ok
        THEN Extracted(json_loads(repaired).value, "repaired")
        ELSE ExtractError("decode_error")

(***************************************************************************)
(* SpecAsk: one _ask_json request.  Each pass of its loop sends            *)
(* strict_prompt to the oracle and extracts JSON from the response; the    *)
(* oracle answers with any response of ResponseInputs or fails, and an     *)
(* exception of call_llm leaves _ask_json uncaught.  oracle lists the      *)
(* responses received, prompts the prompts sent.                           *)
(***************************************************************************)
ObjectText   == <<"{", Q, "k", Q, ":", "1", "}">>
EscapedInner == <<BS, Q, "k", BS, Q, ":", "1">>
RawInner     == <<"{", Q, "k", Q, ":", "1", "}">>

ResponseInputs ==
    { Response(ObjectText),
      Response(<<" ">> \o ObjectText \o <<" ">>),
      Response(<<"[", "1", "]">>),
      Response(<<"x", " ">> \o ObjectText \o <<" ", "x">>),
      Response(<<"{", Q, "content", Q, ":", Q>> \o RawInner \o <<Q, "}">>),
      Response(<<"{", Q, "content", Q, ":", Q, "{">> \o EscapedInner \o <<"}", Q, "}">>),
      Response(<<"x">>),
      Response(<<"{", "x", "}">>),
      Response(<<>>),
      NoResponse }

UserPrompt   == <<"prompt", "json_only">>
RetryPrompt(last_error) == <<"invalid_answer", last_error>>

\* strict_prompt of the pass that follows the responses received so far
strict_prompt(received) ==
    IF received = <<>> THEN UserPrompt
    ELSE RetryPrompt(_extract_json(Last(received)).via)

InitAsk == IdleState /\ IdleValidator /\ IdlePlan /\ IdleExecutor /\ IdlePlanner /\ IdleOrchestrator

OnlyPlannerChanges ==
    UNCHANGED <<valVars, planVars, countVars, pathVars, lastCall, guard, execVars, orchVars>>

AskJson ==
    /\ askStatus = "idle"
    /\ askStatus' = "asking"
    /\ UNCHANGED <<oracle, llmCalls, prompts, askValue>>
    /\ OnlyPlannerChanges

AskJsonAttempt_OneMoreRetry ==
    /\ askStatus = "asking"
    /\ llmCalls < MAX_RETRIES + 1
    /\ llmCalls' = llmCalls + 1
    /\ prompts' = Append(prompts, strict_prompt(oracle))
    /\ \E raw \in ResponseInputs :
          /\ oracle' = Append(oracle, raw)
          /\ IF _extract_json(raw).ok
             THEN askStatus' = "returned" /\ askValue' = _extract_json(raw).value
             ELSE /\ askStatus' = IF llmCalls' = MAX_RETRIES + 1 THEN "PlannerError"
                                  ELSE "asking"
                  /\ askValue' = askValue
    /\ OnlyPlannerChanges

\* one pass of the loop; the last pass that fails raises PlannerError
AskJsonAttempt ==
    /\ askStatus = "asking"
    /\ llmCalls < MAX_RETRIES
    /\ llmCalls' = llmCalls + 1
    /\ prompts' = Append(prompts, strict_prompt(oracle))
    /\ \E raw \in ResponseInputs :
          /\ oracle' = Append(oracle, raw)
          /\ IF _extract_json(raw).ok
             THEN askStatus' = "returned" /\ askValue' = _extract_json(raw).value
             ELSE /\ askStatus' = IF llmCalls' = MAX_RETRIES THEN "PlannerError"
                                  ELSE "asking"
                  /\ askValue' = askValue
    /\ OnlyPlannerChanges

\* call_llm raises: the exception leaves _ask_json
OracleFails ==
    /\ askStatus = "asking"
    /\ llmCalls < MAX_RETRIES
    /\ llmCalls' = llmCalls + 1
    /\ prompts' = Append(prompts, strict_prompt(oracle))
    /\ askStatus' = "OracleError"
    /\ UNCHANGED <<oracle, askValue>>
    /\ OnlyPlannerChanges

NextAsk == AskJson \/ AskJsonAttempt \/ OracleFails

SpecAsk == InitAsk /\ [][NextAsk]_vars

StrategyInputs(raw) ==
    LET text == Strip(IF raw.isNone THEN <<>> ELSE raw.text)
        candidate == _extract_braced_json(text)
    IN  <<text>> \o (IF candidate.found
                     THEN <<candidate.text, _repair_unescaped_content_quotes(candidate.text)>>
                     ELSE <<>>)

\* some strategy yields text that json.loads parses
Parseable(raw) ==
    \E i \in 1..Len(StrategyInputs(raw)) : json_loads(StrategyInputs(raw)[i]).ok

FirstParse(raw) ==
    LET ins == StrategyInputs(raw)
        i   == CHOOSE k \in 1..Len(ins) :
                   json_loads(ins[k]).ok /\ \A j \in 1..(k - 1) : ~json_loads(ins[j]).ok
    IN  json_loads(ins[i]).value

\* C10: a request calls the oracle at most 3 times; it returns the JSON parsed
\* from the first parseable response and calls no more; it raises PlannerError
\* exactly when it has received 3 responses and none of them is parseable.
C10_AtMostThreeCalls ==
    /\ llmCalls <= 3
    /\ Len(prompts) = llmCalls
    /\ \A i \in 1..(Len(oracle) - 1) : ~Parseable(oracle[i])
    /\ askStatus = "returned" =>
           /\ Len(oracle) = llmCalls
           /\ Parseable(Last(oracle))
           /\ askValue = FirstParse(Last(oracle))
    /\ askStatus = "asking" => \A i \in 1..Len(oracle) : ~Parseable(oracle[i])
    /\ askStatus = "PlannerError" <=>
           (Len(oracle) = 3 /\ \A i \in 1..3 : ~Parseable(oracle[i]))

C10_Witness ==
    /\ askStatus = "returned"
    /\ llmCalls = 2
    /\ _extract_json(oracle[1]).via = "decode_error"
    /\ _extract_json(oracle[2]).via = "repaired"

(***************************************************************************)
(* core/orchestrator.py : _serve_and_fix                                   *)
(*                                                                         *)
(* SpecServe: the build / fix loop.  A pass of the loop runs ng build; on  *)
(* a failing build below the last round it asks the oracle for a fix and   *)
(* applies the steps of the answer.  The build output, the hash of the     *)
(* project files and the oracle's answer are inputs.  A build output is    *)
(* the exit status with the output text, a sequence of atoms: "TS2304:"    *)
(* and "NG8002" hold an error code, "TS2304:" and "X [ERROR]" match an     *)
(* error pattern.                                                          *)
(***************************************************************************)
max_fix_rounds == 3

BuildOut(ok, text) == [ok_build |-> ok, text |-> text]

BuildOutputs ==
    { BuildOut(TRUE,  <<"bundle">>),
      BuildOut(TRUE,  <<"X [ERROR]">>),
      BuildOut(FALSE, <<"TS2304:">>),
      BuildOut(FALSE, <<"X [ERROR]", "NG8002">>),
      BuildOut(FALSE, <<"bundle">>) }

HashInputs == {"h1", "h2"}

FixResponses == {"", "no_steps", "steps"}

_has_build_errors(output) == \E i \in 1..Len(output) : output[i] \in {"TS2304:", "X [ERROR]"}

_extract_error_codes(output) ==
    {"TS2304" : i \in {j \in 1..Len(output) : output[j] = "TS2304:"}}
        \cup {"NG8002" : i \in {j \in 1..Len(output) : output[j] = "NG8002"}}

BuildFailed_ExitCodeOnly(out) == ~out.ok_build

BuildFailed(out) == _has_build_errors(out.text) \/ ~out.ok_build

InitServe ==
    /\ IdleState /\ IdleValidator /\ IdlePlan /\ IdleExecutor /\ IdlePlanner
    /\ IdleServe /\ IdleRun /\ IdleNested /\ IdleWorkspaces /\ IdleWeb /\ IdleLate

OnlyServeChanges ==
    UNCHANGED <<valVars, planVars, countVars, pathVars, lastCall, guard, execVars, askVars,
                runVars, nestVars, wsVars, webVars, lateVars>>

ServeAndFix ==
    /\ serveStatus = "idle"
    /\ serveStatus' = "building"
    /\ UNCHANGED <<fix_round, last_hash, error_codes_history, builds, fixRequests>>
    /\ OnlyServeChanges

NgBuild_OneMoreRound ==
    /\ serveStatus = "building"
    /\ fix_round <= max_fix_rounds + 1
    /\ \E out \in BuildOutputs :
          /\ builds' = Append(builds, out)
          /\ IF BuildFailed(out)
             THEN /\ error_codes_history' =
                         Append(error_codes_history, _extract_error_codes(out.text))
                  /\ serveStatus' = IF fix_round >= max_fix_rounds + 1 THEN "exhausted"
                                    ELSE "fixing"
             ELSE /\ error_codes_history' = error_codes_history
                  /\ serveStatus' = "served"
    /\ UNCHANGED <<fix_round, last_hash, fixRequests>>
    /\ OnlyServeChanges

\* ng build of this round: a clean build starts the server and returns, a failing
\* one in the last round gives up, any other failing one goes on to the fix
NgBuild ==
    /\ serveStatus = "building"
    /\ fix_round <= max_fix_rounds
    /\ \E out \in BuildOutputs :
          /\ builds' = Append(builds, out)
          /\ IF BuildFailed(out)
             THEN /\ error_codes_history' =
                         Append(error_codes_history, _extract_error_codes(out.text))
                  /\ serveStatus' = IF fix_round >= max_fix_rounds THEN "exhausted"
                                    ELSE "fixing"
             ELSE /\ error_codes_history' = error_codes_history
                  /\ serveStatus' = "served"
    /\ UNCHANGED <<fix_round, last_hash, fixRequests>>
    /\ OnlyServeChanges

\* the fix of a failing round: prompt chosen from the hash and the error codes,
\* then the oracle's answer; no answer or no step ends the loop
AskFix ==
    /\ serveStatus = "fixing"
    /\ \E current_hash \in HashInputs, fix_resp \in FixResponses :
          LET hash_changed == current_hash # last_hash
              n == Len(error_codes_history)
              persistent_codes ==
                  IF n >= 2 THEN error_codes_history[n] \cap error_codes_history[n - 1]
                  ELSE {}
              use_strategy_change ==
                  \/ (persistent_codes # {} /\ fix_round > 0)
                  \/ (~hash_changed /\ fix_round > 0)
          IN  /\ last_hash' = current_hash
              /\ fixRequests' = Append(fixRequests,
                     IF use_strategy_change THEN "strategy_change" ELSE "normal")
              /\ IF fix_resp = "" THEN serveStatus' = "no_response" /\ fix_round' = fix_round
                 ELSE IF fix_resp = "no_steps"
                 THEN serveStatus' = "no_steps" /\ fix_round' = fix_round
                 ELSE serveStatus' = "building" /\ fix_round' = fix_round + 1
    /\ UNCHANGED <<error_codes_history, builds>>
    /\ OnlyServeChanges

NextServe == ServeAndFix \/ NgBuild \/ AskFix

SpecServe == InitServe /\ [][NextServe]_vars

\* C11: once two consecutive builds have failed with the same output, the loop
\* ends as a stall: no fix is requested for the second of them and no further
\* build is run (one fix request when the first two builds are the identical ones).
C11_StallAborts ==
    \A i \in 1..(Len(builds) - 1) :
        (BuildFailed(builds[i]) /\ builds[i + 1] = builds[i]) =>
            /\ Len(fixRequests) <= i
            /\ Len(builds) = i + 1

\* C12: at most 3 fix requests are sent and at most 4 builds are run; a build that
\* still fails after the 3rd fix ends the loop as exhausted, with no 4th request.
C12_AtMostThreeFixRounds ==
    /\ Len(fixRequests) <= 3
    /\ Len(builds) <= 4
    /\ (Len(fixRequests) = 3 /\ Len(builds) = 4 /\ BuildFailed(Last(builds)))
           => serveStatus = "exhausted"
    /\ serveStatus = "exhausted" =>
           /\ Len(fixRequests) = 3
           /\ \A i \in 1..Len(builds) : BuildFailed(builds[i])

C12_Witness ==
    /\ serveStatus = "exhausted"
    /\ Len(fixRequests) = 3
    /\ Len(builds) = 4

(***************************************************************************)
(* SpecRun: the orchestrator's run of a master plan.                       *)
(*                                                                         *)
(* The plan is validated with validate_plan, its phases are ordered by     *)
(* Kahn's algorithm over the resolved dependency graph, and the phases are *)
(* executed in that order: set_phase, the phase's work, complete_phase and *)
(* the reset of the per-phase counter.  A phase whose work fails ends the  *)
(* run.  Phase names are the one-atom names "A" "B" "C"; the AgentState    *)
(* operations take the atom.                                               *)
(***************************************************************************)
RunNames == {<<"A">>, <<"B">>, <<"C">>}

RunDepLists ==
    { <<>>, << <<"A">> >>, << <<"B">> >>, << <<"C">> >>,
      << <<"A">>, <<"B">> >>, << <<"A">>, <<"C">> >>, << <<"B">>, <<"C">> >> }

IsRunPlan(p) ==
    \E k \in 1..MaxPhases : \E n \in [1..k -> RunNames], d \in [1..k -> RunDepLists] :
        /\ \A i, j \in 1..k : i # j => n[i] # n[j]
        /\ p = [isList |-> TRUE, phases |-> [i \in 1..k |-> Phase(n[i], d[i])]]

PhaseKey(name) == name[1]

\* every order in which Kahn's algorithm can emit the phases: a phase is emitted
\* once all its resolved dependencies are; no order when a cycle is left
RECURSIVE KahnOrders(_, _)
KahnOrders(phases, placed) ==
    LET ready == {i \in 1..Len(phases) :
                     /\ phases[i].name \notin Range(placed)
                     /\ Range(ResolvedDeps(phases, i)) \subseteq Range(placed)}
    IN  IF Len(placed) = Len(phases) THEN {placed}
        ELSE UNION {KahnOrders(phases, Append(placed, phases[i].name)) : i \in ready}

InitRun ==
    /\ IsRunPlan(plan) /\ planVerdict = "pending"
    /\ IdleState /\ IdleValidator /\ IdleExecutor /\ IdlePlanner /\ IdleServe /\ IdleRun
    /\ IdleNested /\ IdleWorkspaces /\ IdleWeb /\ IdleLate

OnlyRunChanges ==
    UNCHANGED <<valVars, plan, lastCall, guard, execVars, askVars, serveVars, nestVars,
                wsVars, webVars, lateVars>>

OrderPhases ==
    /\ orchStatus = "idle"
    /\ planVerdict' = validate_plan(plan)
    /\ IF validate_plan(plan) # "ok"
       THEN phaseOrder' = <<>> /\ orchStatus' = "rejected"
       ELSE IF KahnOrders(plan.phases, <<>>) = {}
       THEN phaseOrder' = <<>> /\ orchStatus' = "cycle"
       ELSE phaseOrder' \in KahnOrders(plan.phases, <<>>) /\ orchStatus' = "ordered"
    /\ UNCHANGED <<started, countVars, pathVars>>
    /\ OnlyRunChanges

StartPhase ==
    /\ orchStatus = "ordered"
    /\ Len(started) < Len(phaseOrder)
    /\ set_phase(PhaseKey(phaseOrder[Len(started) + 1]))
    /\ started' = Append(started, phaseOrder[Len(started) + 1])
    /\ orchStatus' = "in_phase"
    /\ UNCHANGED <<planVerdict, phaseOrder>>
    /\ OnlyRunChanges

FinishPhase ==
    /\ orchStatus = "in_phase"
    /\ complete_phase(PhaseKey(Last(started)))
    /\ orchStatus' = "completed"
    /\ UNCHANGED <<planVerdict, phaseOrder, started>>
    /\ OnlyRunChanges

FailPhase ==
    /\ orchStatus = "in_phase"
    /\ orchStatus' = "failed"
    /\ UNCHANGED <<planVerdict, phaseOrder, started, countVars, pathVars>>
    /\ OnlyRunChanges

ResetPhaseCounters ==
    /\ orchStatus = "completed"
    /\ reset_phase
    /\ orchStatus' = IF Len(started) = Len(phaseOrder) THEN "done" ELSE "ordered"
    /\ UNCHANGED <<planVerdict, phaseOrder, started>>
    /\ OnlyRunChanges

NextRun == OrderPhases \/ StartPhase \/ FinishPhase \/ FailPhase \/ ResetPhaseCounters

SpecRun == InitRun /\ [][NextRun]_vars

\* the phases that the phase named n depends on, by any of the reference rules
DependsOn(n) ==
    {m \in {plan.phases[j].name : j \in 1..Len(plan.phases)} :
        \E i \in 1..Len(plan.phases) :
            /\ plan.phases[i].name = n
            /\ \E k \in 1..Len(plan.phases[i].deps) : Matches(plan.phases[i].deps[k], m)}

\* C13: every phase started has all the phases it depends on started before it and
\* completed, each phase is started once, and at most one phase, the last one
\* started, is not yet completed.
C13_TopologicalOneAtATime ==
    /\ \A k \in 1..Len(started) :
          /\ \A d \in DependsOn(started[k]) :
                /\ \E j \in 1..(k - 1) : started[j] = d
                /\ PhaseKey(d) \in Range(completed_phases)
          /\ \A j \in 1..(k - 1) : started[j] # started[k]
    /\ \A k \in 1..(Len(started) - 1) : PhaseKey(started[k]) \in Range(completed_phases)
    /\ orchStatus = "done" =>
           {PhaseKey(plan.phases[i].name) : i \in 1..Len(plan.phases)}
               = Range(completed_phases)

C13_Witness ==
    /\ orchStatus = "done"
    /\ Len(plan.phases) = 3
    /\ \E i \in 1..3 : Len(plan.phases[i].deps) = 2
    /\ plan.phases[1].deps # <<>>

(***************************************************************************)
(* SpecNested: the llm_call handler of ActionExecutor and its recursion.   *)
(*                                                                         *)
(* A frame is a payload under execution with the number of its actions     *)
(* already executed; frame 1 is the batch given to execute_actions (depth  *)
(* 0) and frame d + 1 is a payload embedded in the response to an llm_call *)
(* of frame d.  An llm_call at depth MAX_NESTED_DEPTH is not sent to the   *)
(* oracle: it raises the depth error, which ends every nested payload and  *)
(* becomes the failed result of the top-level llm_call.                    *)
(***************************************************************************)
MAX_NESTED_DEPTH == 2

Frame(acts, pos) == [actions |-> acts, cursor |-> pos]

NestedWrite == WriteOf("file_write", SourceFile("nested_", 1))

OracleResponse(embeds, actions) == [embeds |-> embeds, actions |-> actions]

OracleResponses ==
    { OracleResponse(FALSE, <<>>),
      OracleResponse(TRUE, <<NestedWrite>>),
      OracleResponse(TRUE, <<LlmCall>>),
      OracleResponse(TRUE, <<NestedWrite, LlmCall>>),
      OracleResponse(TRUE, <<ProtectedWrite>>) }

NestedBatchInputs ==
    { <<LlmCall>>, <<LlmCall, WriteOf("file_write", SourceFile("file_", 0))>>,
      <<LlmCall, LlmCall>>,
      <<WriteOf("file_write", SourceFile("file_", 0)), CommandOf(<<"ng", " ", "build">>),
        WriteOf("file_write", SourceFile("file_", 1))>> }

\* what subprocess.run does: it returns with an exit status and the text of the
\* two streams (lines of words, already stripped), or it raises
Completed(returncode, stdout, stderr) ==
    [raises |-> "", returncode |-> returncode, stdout |-> stdout, stderr |-> stderr]

Raises(exception) == [raises |-> exception, returncode |-> 0, stdout |-> <<>>, stderr |-> <<>>]

SubprocessOutcomes ==
    { Completed(0, << <<"built">> >>, <<>>),
      Completed(0, <<>>, << <<"npm", " ", "warn", " ", "old">> >>),
      Completed(1, <<>>, << <<"Analytics", " ", "off">>, <<"fatal">> >>),
      Completed(1, << <<"built">> >>, << <<"ExperimentalWarning">>, <<"fatal">> >>),
      Raises("TimeoutExpired"),
      Raises("Exception") }

IsBadLine(l) ==
    /\ ~(Len(l) >= 3 /\ SubSeq(l, 1, 3) = <<"npm", " ", "warn">>)
    /\ "ExperimentalWarning" \notin Range(l)
    /\ "analytics" \notin Range(Lower(l))

RECURSIVE BadLines(_)
BadLines(ls) ==
    IF ls = <<>> THEN <<>>
    ELSE (IF IsBadLine(ls[1]) THEN <<ls[1]>> ELSE <<>>) \o BadLines(Tail(ls))

_run_ExceptionIsSuccess(r) ==
    IF r.raises # "" THEN [ok |-> TRUE, out |-> << <<"(sin output)">> >>]
    ELSE [ok |-> r.returncode = 0, out |-> r.stdout]

\* _run: the pair (ok, out) for what subprocess.run did
_run(r) ==
    IF r.raises = "TimeoutExpired" THEN [ok |-> FALSE, out |-> << <<"[TIMEOUT]">> >>]
    ELSE IF r.raises # "" THEN [ok |-> FALSE, out |-> << <<"[ERROR]">> >>]
    ELSE LET bad == BadLines(r.stderr)
             out == r.stdout \o (IF bad # <<>> THEN << <<"[STDERR]">> >> \o bad ELSE <<>>)
         IN  [ok |-> r.returncode = 0,
              out |-> IF out # <<>> THEN out ELSE << <<"(sin output)">> >>]

WriteOutcomes == {"written", "OSError"}

\* the response embeds a payload that the executor runs
EmbedsValidPayload(r) ==
    r.embeds /\ validate_actions([isList |-> TRUE, actions |-> r.actions]) = "ok"

Depth == Len(frames) - 1

CurrentAction(f) == f.actions[f.cursor + 1]

DepthExceeded_OffByOne(depth) == depth > MAX_NESTED_DEPTH

DepthExceeded(depth) == depth >= MAX_NESTED_DEPTH

\* a result record; the error is a text, a sequence of lines of words
Result(ok, error) == [ok |-> ok, error |-> error]

ErrorText(word) == << <<word>> >>

InitNested ==
    /\ IdleState /\ IdleValidator /\ IdlePlan /\ IdleExecutor /\ IdlePlanner
    /\ IdleServe /\ IdleRun /\ IdleNested /\ IdleWorkspaces /\ IdleWeb /\ IdleLate

OnlyNestedChanges ==
    UNCHANGED <<valVars, planVars, lastCall, execVars, askVars, serveVars, runVars, wsVars,
                webVars, lateVars>>

\* the action at the cursor of the innermost frame has been executed: it is
\* registered (logged only, when nested), Loop Guard is checked, the cursor moves
\* on, and a top-level action gets its result
ActionExecuted(fs, result, ending) ==
    LET f == Last(fs)
        d == Len(fs) - 1
    IN  /\ handlerLog' = IF d = 0 THEN Append(handlerLog, ending) ELSE handlerLog
        /\ IF d = 0 THEN register_action(CurrentAction(f))
                    ELSE log_nested_action(CurrentAction(f))
        /\ CheckedAfterAction
        /\ frames' = [fs EXCEPT ![Len(fs)] = Frame(f.actions, f.cursor + 1)]
        /\ nestResults' = IF d = 0 THEN Append(nestResults, result) ELSE nestResults
        /\ nestStatus' = IF guard' # "ok" THEN "ExecutorError"
                         ELSE IF d = 0 /\ f.cursor + 1 = Len(f.actions) THEN "done"
                         ELSE "running"

ExecuteBatch ==
    /\ nestStatus = "idle"
    /\ \E b \in NestedBatchInputs : frames' = <<Frame(b, 0)>>
    /\ nestStatus' = "running"
    /\ UNCHANGED <<oracleLog, nestResults, files, handlerLog, countVars, pathVars, guard>>
    /\ OnlyNestedChanges

HasCurrent(f) == f.cursor < Len(f.actions)

ExecWrite ==
    /\ nestStatus = "running"
    /\ HasCurrent(Last(frames))
    /\ CurrentAction(Last(frames)).type = "file_write"
    /\ \E w \in WriteOutcomes :
          IF w = "written"
          THEN /\ files' = files \cup {Target(CurrentAction(Last(frames)))}
               /\ ActionExecuted(frames, Result(TRUE, <<>>), "returned")
          ELSE /\ files' = files
               /\ ActionExecuted(frames, Result(FALSE, ErrorText(w)), "raised")
    /\ UNCHANGED oracleLog
    /\ OnlyNestedChanges

ExecCommand ==
    /\ nestStatus = "running"
    /\ HasCurrent(Last(frames))
    /\ CurrentAction(Last(frames)).type = "command"
    /\ \E r \in SubprocessOutcomes :
          ActionExecuted(frames,
                         IF _run(r).ok THEN Result(TRUE, <<>>) ELSE Result(FALSE, _run(r).out),
                         IF r.raises # "" THEN "raised" ELSE "returned")
    /\ UNCHANGED <<oracleLog, files>>
    /\ OnlyNestedChanges

LlmCallOracle ==
    /\ nestStatus = "running"
    /\ HasCurrent(Last(frames))
    /\ CurrentAction(Last(frames)).type = "llm_call"
    /\ ~DepthExceeded(Depth)
    /\ \E r \in OracleResponses :
          /\ oracleLog' = Append(oracleLog, [top |-> frames[1].cursor + 1, depth |-> Depth,
                                             response |-> r])
          /\ IF EmbedsValidPayload(r)
             THEN /\ frames' = Append(frames, Frame(r.actions, 0))
                  /\ UNCHANGED <<nestResults, nestStatus, handlerLog, countVars, pathVars,
                                 guard>>
             ELSE ActionExecuted(frames,
                                 IF r.embeds THEN Result(FALSE, ErrorText("ValidationError"))
                                             ELSE Result(TRUE, <<>>),
                                 IF r.embeds THEN "raised" ELSE "returned")
    /\ UNCHANGED files
    /\ OnlyNestedChanges

LlmCallReturns ==
    /\ nestStatus = "running"
    /\ Len(frames) > 1
    /\ ~HasCurrent(Last(frames))
    /\ ActionExecuted(SubSeq(frames, 1, Len(frames) - 1), Result(TRUE, <<>>), "returned")
    /\ UNCHANGED <<oracleLog, files>>
    /\ OnlyNestedChanges

LlmCallTooDeep ==
    /\ nestStatus = "running"
    /\ HasCurrent(Last(frames))
    /\ CurrentAction(Last(frames)).type = "llm_call"
    /\ DepthExceeded(Depth)
    /\ ActionExecuted(<<frames[1]>>, Result(FALSE, ErrorText("anidadas")), "raised")
    /\ UNCHANGED <<oracleLog, files>>
    /\ OnlyNestedChanges

NextNested ==
    \/ ExecuteBatch
    \/ ExecWrite
    \/ ExecCommand
    \/ LlmCallOracle
    \/ LlmCallReturns
    \/ LlmCallTooDeep

SpecNested == InitNested /\ [][NextNested]_vars

\* the oracle call met an llm_call one level below it at once
AnswersWithLlmCall(call) ==
    /\ call.response.embeds
    /\ call.response.actions # <<>>
    /\ call.response.actions[1].type = "llm_call"

\* C14: no oracle call is made at nesting depth 2 or deeper and no payload runs
\* deeper than depth 2; when the response to an llm_call at depth 1 embeds a
\* further llm_call, that call reaches the depth limit and the top-level llm_call
\* it belongs to gets the result ok = false with the depth-limit error.
C14_DepthBounded ==
    /\ \A i \in 1..Len(oracleLog) : oracleLog[i].depth < 2
    /\ Len(frames) <= 3
    /\ \A i \in 1..Len(oracleLog) :
          (/\ oracleLog[i].depth = 1
           /\ AnswersWithLlmCall(oracleLog[i])
           /\ \/ Len(nestResults) >= oracleLog[i].top
              \/ Len(oracleLog) > i)
          => /\ Len(nestResults) >= oracleLog[i].top
             /\ nestResults[oracleLog[i].top] = Result(FALSE, ErrorText("anidadas"))

C14_Witness ==
    /\ Len(oracleLog) = 2
    /\ oracleLog[2].depth = 1 /\ AnswersWithLlmCall(oracleLog[2])
    /\ nestResults = <<Result(FALSE, ErrorText("anidadas"))>>
    /\ nestStatus = "done"

\* C15: the batch has one result for each top-level action executed so far, in
\* the order of the batch, and a finished batch one for every action; an action
\* whose handler raised has a result with ok = false and an error, and the
\* actions after it are executed all the same; a file written by an action stays
\* written whatever happens to the later actions.
C15_OneResultPerAction ==
    nestStatus \in {"running", "done"} =>
        /\ Len(nestResults) = frames[1].cursor
        /\ Len(handlerLog) = Len(nestResults)
        /\ nestStatus = "done" => Len(nestResults) = Len(frames[1].actions)
        /\ nestStatus = "running" => frames[1].cursor < Len(frames[1].actions)
        /\ \A i \in 1..Len(nestResults) :
              /\ handlerLog[i] = "raised" =>
                     (~nestResults[i].ok /\ nestResults[i].error # <<>>)
              /\ nestResults[i].ok => handlerLog[i] = "returned"
              /\ (frames[1].actions[i].type = "file_write" /\ handlerLog[i] = "returned")
                     => Target(frames[1].actions[i]) \in files

C15_Witness ==
    /\ nestStatus = "done"
    /\ Len(nestResults) = 3
    /\ handlerLog = <<"returned", "raised", "returned">>
    /\ frames[1].actions[2].type = "command"
    /\ ~nestResults[2].ok /\ nestResults[1].ok /\ nestResults[3].ok
    /\ Cardinality(files) = 2

(***************************************************************************)
(* SpecWorkspaces: the task workspace of run_orchestrator (orchestrator.py)*)
(* and of _create_workspace (agent.py).                                    *)
(*                                                                         *)
(* A request is a sequence of characters.  The workspace is the directory  *)
(* WORKSPACE_ROOT / "<safe>_<HHMMSS>", made with mkdir(exist_ok=True).     *)
(* The clock moves by a second or by a day between two invocations, or not *)
(* at all.                                                                 *)
(***************************************************************************)
MaxRuns    == 2
MaxSeconds == 2
MaxDays    == 1

SecondsPerDay == 86400

SafeLenOrchestrator == 35
SafeLenAgent        == 30

Repeat(a, n) == [i \in 1..n |-> a]

RequestInputs ==
    { <<"x">>, <<"X">>, <<"x", " ", "-">>, <<"x", "!", "-">>,
      Repeat("x", SafeLenAgent) \o <<"c">>, Repeat("x", SafeLenAgent) \o <<"ts">> }

IsWordChar(a) == a \in {"x", "c", "ts", "main", "1", "_"}

\* re.sub(r'[^\w\-]', '_', text.lower())[:n]
Safe(text, n) ==
    LET low == Lower(text)
        sub == [i \in 1..Len(low) |-> IF IsWordChar(low[i]) \/ low[i] = "-" THEN low[i] ELSE "_"]
    IN  SubSeq(sub, 1, IF Len(sub) < n THEN Len(sub) ELSE n)

\* datetime.now().strftime("%H%M%S")
strftime_HMS(t) ==
    LET s == t % SecondsPerDay
    IN  <<s \div 3600, (s % 3600) \div 60, s % 60>>

WorkspaceName(text, n, t) == [safe |-> Safe(text, n), ts |-> strftime_HMS(t)]

InitWorkspaces ==
    /\ IdleState /\ IdleValidator /\ IdlePlan /\ IdleExecutor /\ IdlePlanner
    /\ IdleServe /\ IdleRun /\ IdleNested /\ IdleWorkspaces /\ IdleWeb /\ IdleLate

OnlyWorkspacesChange ==
    UNCHANGED <<valVars, planVars, countVars, pathVars, lastCall, guard, execVars, askVars,
                serveVars, runVars, nestVars, webVars, lateVars>>

\* mkdir(parents=True, exist_ok=True): an existing directory is kept and returned
MakeWorkspace(name) ==
    /\ dirs' = dirs \cup {name}
    /\ workspaces' = Append(workspaces, name)
    /\ UNCHANGED now

RunOrchestrator ==
    /\ Len(workspaces) < MaxRuns
    /\ \E objetivo \in RequestInputs :
          MakeWorkspace(WorkspaceName(objetivo, SafeLenOrchestrator, now))
    /\ OnlyWorkspacesChange

CreateWorkspace ==
    /\ Len(workspaces) < MaxRuns
    /\ \E nombre \in RequestInputs : MakeWorkspace(WorkspaceName(nombre, SafeLenAgent, now))
    /\ OnlyWorkspacesChange

SecondPasses ==
    /\ now % SecondsPerDay < MaxSeconds
    /\ now' = now + 1
    /\ UNCHANGED <<workspaces, dirs>>
    /\ OnlyWorkspacesChange

DayPasses ==
    /\ now \div SecondsPerDay < MaxDays
    /\ now' = now + SecondsPerDay
    /\ UNCHANGED <<workspaces, dirs>>
    /\ OnlyWorkspacesChange

NextWorkspaces == RunOrchestrator \/ CreateWorkspace \/ SecondPasses \/ DayPasses

SpecWorkspaces == InitWorkspaces /\ [][NextWorkspaces]_vars

\* C16: the workspaces returned by any two invocations differ, so every
\* invocation returns a directory that did not exist before.
C16_FreshWorkspaces ==
    /\ \A i, j \in 1..Len(workspaces) : i # j => workspaces[i] # workspaces[j]
    /\ Cardinality(dirs) = Len(workspaces)

(***************************************************************************)
(* SpecWeb: ask_ai_multiturn (core/ai_scraper.py), the oracle call of a    *)
(* task.                                                                   *)
(*                                                                         *)
(* The calling thread hands the coroutine _multiturn_async to the runtime  *)
(* loop and blocks on future.result().  The coroutine tries the sites in   *)
(* turn; on a site it sends the prompts one after the other, awaiting each *)
(* answer, and re-sends a prompt once on a fresh session when the send     *)
(* raised.  coro.pc is the await at which the coroutine stands.            *)
(***************************************************************************)
MaxTurns     == 2
MaxWebEvents == 6

NumSites == 4

Coroutine(at, ss, k, n, t, rs) ==
    [pc |-> at, sites |-> ss, site |-> k, prompts |-> n, turn |-> t, responses |-> rs]

InitWeb ==
    /\ IdleState /\ IdleValidator /\ IdlePlan /\ IdleExecutor /\ IdlePlanner
    /\ IdleServe /\ IdleRun /\ IdleNested /\ IdleWorkspaces /\ IdleWeb /\ IdleLate

OnlyWebChanges ==
    UNCHANGED <<valVars, planVars, countVars, pathVars, lastCall, guard, execVars, askVars,
                serveVars, runVars, nestVars, wsVars, loopVars, lateVars>>

\* future.result(): the caller goes on once the coroutine has finished
future_result(pc) == pc \in {"result", "exception"}

\* the coroutine sends a prompt where it stands at a send_prompt call
AtSendPrompt_NoAwait(pc) == pc \in {"send", "resend", "awaiting", "awaiting_resend"}

AtSendPrompt(pc) == pc \in {"send", "resend"}

AskAiMultiturn ==
    /\ callerPc = "idle"
    /\ coro.pc = "none"
    /\ Len(oracleEvents) < MaxWebEvents
    /\ \E n \in 1..MaxTurns, preferred \in BOOLEAN :
          coro' = Coroutine("start", IF preferred THEN 1 ELSE NumSites, 1, n, 1, <<>>)
    /\ callerPc' = "blocked"
    /\ UNCHANGED <<inFlight, oracleEvents>>
    /\ OnlyWebChanges

\* what _multiturn_async does when _run_multiturn raised on the site
SiteFailed(c) ==
    IF c.site < c.sites
    THEN Coroutine("start", c.sites, c.site + 1, c.prompts, 1, <<>>)
    ELSE Coroutine("exception", c.sites, c.site, c.prompts, c.turn, <<>>)

SessionStart ==
    /\ coro.pc \in {"start", "restart"}
    /\ \E started_ok \in BOOLEAN :
          coro' = IF started_ok
                  THEN [coro EXCEPT !.pc = IF coro.pc = "start" THEN "send" ELSE "resend"]
                  ELSE IF coro.pc = "start"
                  THEN [coro EXCEPT !.pc = "start_again"]
                  ELSE SiteFailed(coro)
    /\ UNCHANGED <<callerPc, inFlight, oracleEvents>>
    /\ OnlyWebChanges

SessionStartAgain ==
    /\ coro.pc = "start_again"
    /\ \E started_ok \in BOOLEAN :
          coro' = IF started_ok THEN [coro EXCEPT !.pc = "send"] ELSE SiteFailed(coro)
    /\ UNCHANGED <<callerPc, inFlight, oracleEvents>>
    /\ OnlyWebChanges

SendPrompt ==
    /\ AtSendPrompt(coro.pc)
    /\ Len(oracleEvents) < MaxWebEvents
    /\ inFlight' = inFlight + 1
    /\ oracleEvents' = Append(oracleEvents, "send")
    /\ coro' = [coro EXCEPT !.pc = IF coro.pc \in {"send", "awaiting"} THEN "awaiting"
                                   ELSE "awaiting_resend"]
    /\ UNCHANGED callerPc
    /\ OnlyWebChanges

\* after the last prompt: the site's responses are the result if any is not empty
TurnDone(c, resp) ==
    LET rs == Append(c.responses, resp)
    IN  IF c.turn < c.prompts
        THEN Coroutine("send", c.sites, c.site, c.prompts, c.turn + 1, rs)
        ELSE IF \E i \in 1..Len(rs) : rs[i] # ""
        THEN Coroutine("result", c.sites, c.site, c.prompts, c.turn, rs)
        ELSE IF c.site < c.sites
        THEN Coroutine("start", c.sites, c.site + 1, c.prompts, 1, <<>>)
        ELSE Coroutine("exception", c.sites, c.site, c.prompts, c.turn, <<>>)

PromptReturns ==
    /\ coro.pc \in {"awaiting", "awaiting_resend"}
    /\ inFlight > 0
    /\ \E resp \in {"", "text"} : coro' = TurnDone(coro, resp)
    /\ inFlight' = inFlight - 1
    /\ oracleEvents' = Append(oracleEvents, "return")
    /\ UNCHANGED callerPc
    /\ OnlyWebChanges

PromptFails ==
    /\ coro.pc \in {"awaiting", "awaiting_resend"}
    /\ inFlight > 0
    /\ coro' = IF coro.pc = "awaiting" THEN [coro EXCEPT !.pc = "restart"] ELSE SiteFailed(coro)
    /\ inFlight' = inFlight - 1
    /\ oracleEvents' = Append(oracleEvents, "fail")
    /\ UNCHANGED callerPc
    /\ OnlyWebChanges

FutureResult ==
    /\ callerPc = "blocked"
    /\ future_result(coro.pc)
    /\ callerPc' = "idle"
    /\ coro' = NoCoroutine
    /\ UNCHANGED <<inFlight, oracleEvents>>
    /\ OnlyWebChanges

NextWeb ==
    \/ AskAiMultiturn
    \/ SessionStart
    \/ SessionStartAgain
    \/ SendPrompt
    \/ PromptReturns
    \/ PromptFails
    \/ FutureResult

SpecWeb == InitWeb /\ [][NextWeb]_vars

\* C17: at most one prompt is in flight; a prompt is sent only when every prompt
\* sent before it has returned or failed, and the caller issues its next oracle
\* call only when nothing is in flight.
C17_OneOracleCallInFlight ==
    /\ inFlight <= 1
    /\ \A i \in 1..(Len(oracleEvents) - 1) :
          oracleEvents[i] = "send" => oracleEvents[i + 1] \in {"return", "fail"}
    /\ callerPc = "idle" => (inFlight = 0 /\ coro.pc = "none")

C17_Witness ==
    /\ callerPc = "blocked"
    /\ inFlight = 1
    /\ coro.turn = 2
    /\ \E i \in 1..Len(oracleEvents) : oracleEvents[i] = "fail"
    /\ Len(oracleEvents) >= 5

(***************************************************************************)
(* validate_actions: action types, protected files, file content           *)
(***************************************************************************)
KnownTypes == {"command", "file_write", "file_modify", "llm_call"}

IsKnownAction(a) == a.isDict /\ a.type \in KnownTypes

\* C18: a payload is accepted only if it is a non-empty list of objects of the
\* four known types, and a list with an action of any other type, at any
\* position, is rejected.
C18_OnlyKnownTypes ==
    verdict # "pending" =>
        /\ verdict = "ok" =>
               /\ payload.isList /\ payload.actions # <<>>
               /\ \A i \in 1..Len(payload.actions) : IsKnownAction(payload.actions[i])
        /\ (payload.isList
               /\ \E i \in 1..Len(payload.actions) : ~IsKnownAction(payload.actions[i]))
           => Rejected
        /\ (~payload.isList \/ payload.actions = <<>>) => Rejected

C18_Witness ==
    /\ verdict = "type_not_allowed"
    /\ Len(payload.actions) = 2
    /\ payload.actions[2].isDict /\ payload.actions[2].type = "shell"
    /\ IsKnownAction(payload.actions[1])

ProtectedNames ==
    { <<"angular", ".", "json">>, <<"package", ".", "json">>,
      <<"main", ".", "ts">>, <<"index", ".", "html">> }

\* the segments of the path, \ and / both separating, without the leading "."
\* segments that stand for the workspace itself
RECURSIVE DropLeadingDots(_)
DropLeadingDots(segs) ==
    IF Len(segs) > 1 /\ segs[1] = <<".">> THEN DropLeadingDots(Tail(segs)) ELSE segs

PlaceOf(p) == DropLeadingDots(Split(ReplaceAtom(p, "\\", "/"), "/"))

DenotesTopLevelProtected(p) ==
    /\ p # <<>>
    /\ Len(PlaceOf(p)) = 1
    /\ Lower(PlaceOf(p)[1]) \in ProtectedNames

DenotesProtectedInSubdirectory(p) ==
    /\ p # <<>>
    /\ Len(PlaceOf(p)) > 1
    /\ \A k \in 1..Len(PlaceOf(p)) : PlaceOf(p)[k] \notin {<<>>, <<".">>, <<".", ".">>}
    /\ ~HasRootedShape(p)
    /\ Lower(Last(PlaceOf(p))) \in ProtectedNames

\* C19: a payload with a file action whose path denotes a protected file at the
\* top level of the workspace, in any letter case, with \ or /, with or without
\* a leading ./, is rejected; a payload is not rejected as protected when its
\* protected file names all lie in subdirectories.
C19_ProtectedFilesRejected ==
    (verdict # "pending" /\ payload.isList) =>
        /\ (\E i \in 1..Len(payload.actions) :
               /\ IsFileAction(payload.actions[i])
               /\ DenotesTopLevelProtected(payload.actions[i].path.text))
           => Rejected
        /\ (\A i \in 1..Len(payload.actions) :
               IsFileAction(payload.actions[i])
                   => ~DenotesTopLevelProtected(payload.actions[i].path.text))
           => verdict # "protected_file"

IsBlank(text) == \A i \in 1..Len(text) : IsSpace(text[i])

HintAtoms    == {"todo", "TODO", "blockc_todo", "linec_todo", "htmlc_todo"}
CommentAtoms == {"blockc", "linec", "htmlc", "blockc_todo", "linec_todo", "htmlc_todo"}

\* prose and comments only, with a placeholder phrase among them
OnlyHintedProse(text) ==
    /\ \A i \in 1..Len(text) : text[i] \in HintAtoms \cup CommentAtoms \cup {"prose", " ", "  "}
    /\ \E i \in 1..Len(text) : text[i] \in HintAtoms

OnlyComments(text) ==
    /\ \A i \in 1..Len(text) : text[i] \in CommentAtoms \cup {" ", "  "}
    /\ \E i \in 1..Len(text) : text[i] \in CommentAtoms

\* the file is of the TypeScript/JavaScript family or of the HTML family
IsCodeOrMarkup(p) ==
    \E i \in 1..(Len(p) - 1) :
        /\ p[i] = "." /\ i + 1 = Len(p)
        /\ p[i + 1] \in {"ts", "TS", "tsx", "js", "jsx", "html", "HTML", "htm"}

\* C20: a payload with a file action whose content is prose or comments with a
\* placeholder phrase, whose content is empty or blank, or whose content is
\* made of comments only in a TypeScript/JavaScript or HTML file, is rejected.
C20_PlaceholderContentRejected ==
    (verdict # "pending" /\ payload.isList) =>
        \A i \in 1..Len(payload.actions) :
            (IsFileAction(payload.actions[i]) /\ payload.actions[i].content.isStr) =>
                LET text == payload.actions[i].content.text
                IN  (\/ OnlyHintedProse(text)
                     \/ IsBlank(text)
                     \/ (OnlyComments(text) /\ IsCodeOrMarkup(payload.actions[i].path.text)))
                    => Rejected

C20_Witness ==
    /\ Len(payload.actions) = 2
    /\ ValidateAction(payload.actions[1]) = "ok"
    /\ IsFileAction(payload.actions[2])
    /\ \/ /\ verdict = "placeholder"
          /\ payload.actions[2].content.text = <<"prose", " ", "TODO">>
          /\ payload.actions[2].path.text = <<"C", ".", "md">>
       \/ /\ verdict = "only_comments"
          /\ payload.actions[2].content.text = <<"htmlc", " ", "htmlc">>
          /\ payload.actions[2].path.text = <<"C", ".", "HTML">>

\* the extension family of the file, judged by the last atom after a dot
FamilyOf(p) ==
    IF Len(p) < 2 \/ p[Len(p) - 1] # "." THEN "none"
    ELSE IF Last(p) \in {"ts", "TS", "tsx", "js", "jsx"} THEN "code"
    ELSE IF Last(p) \in {"html", "HTML", "htm"} THEN "markup"
    ELSE IF Last(p) \in {"css", "scss"} THEN "style"
    ELSE "none"

\* a declaration stands in the text outside the comments, read as TypeScript
\* reads them: // up to the end of the line, /* up to the next */
RECURSIVE LiveDeclaration(_, _, _)
LiveDeclaration(s, i, mode) ==
    IF i > Len(s) THEN FALSE
    ELSE IF s[i] \in {"blockc", "blockc_todo"} THEN
             LiveDeclaration(s, i + 1, IF mode = "block" THEN "code" ELSE mode)
    ELSE IF s[i] \in {"linec", "linec_todo"} THEN
             LiveDeclaration(s, i + 1, IF mode = "block" THEN "block" ELSE "code")
    ELSE IF mode = "line" THEN LiveDeclaration(s, i + 1, IF s[i] = "nl" THEN "code" ELSE "line")
    ELSE IF mode = "block" THEN LiveDeclaration(s, i + 1, IF s[i] = "*/" THEN "code" ELSE "block")
    ELSE IF s[i] = "decl" THEN TRUE
    ELSE IF s[i] = "//" THEN LiveDeclaration(s, i + 1, "line")
    ELSE IF s[i] = "/*" THEN LiveDeclaration(s, i + 1, "block")
    ELSE LiveDeclaration(s, i + 1, "code")

HasRealDeclaration(p, text) ==
    \/ FamilyOf(p) = "code" /\ LiveDeclaration(text, 1, "code")
    \/ FamilyOf(p) = "markup" /\ "tag" \in Range(text)
    \/ FamilyOf(p) = "style" /\ "rule" \in Range(text)

IsValidPathShape(p) ==
    /\ p # <<>>
    /\ ~HasRootedShape(p)
    /\ ~HasTraversalSegment(p)
    /\ ~DenotesTopLevelProtected(p)

IsPlainCommand(a) == a.isDict /\ a.type = "command" /\ a.command = Str(<<"ls">>)

\* C21: a payload whose file actions all have a valid path and a content with a
\* real declaration of the file's family, next to harmless commands only, is
\* accepted, whatever else the contents hold.
C21_RealDeclarationAccepted ==
    (/\ verdict # "pending"
     /\ payload.isList /\ payload.actions # <<>>
     /\ \A i \in 1..Len(payload.actions) :
           \/ IsPlainCommand(payload.actions[i])
           \/ /\ IsFileAction(payload.actions[i])
              /\ payload.actions[i].content.isStr
              /\ IsValidPathShape(payload.actions[i].path.text)
              /\ HasRealDeclaration(payload.actions[i].path.text,
                                    payload.actions[i].content.text))
    => verdict = "ok"

(***************************************************************************)
(* core/orchestrator.py : _parse_plan, _exec_step and the step loop of     *)
(* run_orchestrator.                                                       *)
(*                                                                         *)
(* A step is [cmd, files, _is_serve]: cmd is the command as words and      *)
(* blanks, NoCmd when the step has none (None); files holds the paths of   *)
(* the FILE blocks of the step.  rawSteps is what _parse_structured or     *)
(* _parse_natural read from the oracle's plan.  stepLog records every      *)
(* command handed to _run, every file written and every fix request.       *)
(***************************************************************************)
MAX_FIX_ATTEMPTS == 3

NoCmd == <<"<None>">>

Step(cmd, fs) == [cmd |-> cmd, files |-> fs, _is_serve |-> FALSE]

\* str.startswith
StartsWith(s, prefix) == Len(s) >= Len(prefix) /\ SubSeq(s, 1, Len(prefix)) = prefix

\* cmd.lower().startswith("ng serve") or cmd.lower().startswith("npm start")
IsServeCommand(lower) ==
    \/ StartsWith(lower, <<"ng", " ", "serve">>)
    \/ StartsWith(lower, <<"npm", " ", "start">>)

_parse_plan(parsed) ==
    LET Marked(step) ==
            LET lower == IF step.cmd = NoCmd THEN <<>> ELSE Lower(step.cmd)
            IN  [cmd       |-> IF StartsWith(lower, <<"npm", " ", "install", " ", "-g">>)
                               THEN NoCmd ELSE step.cmd,
                 files     |-> step.files,
                 _is_serve |-> step._is_serve \/ IsServeCommand(lower)]
        marked == [i \in 1..Len(parsed) |-> Marked(parsed[i])]
    IN  SelectSeq(marked, LAMBDA st : st.cmd # NoCmd \/ st.files # <<>>)

\* exec_steps = [s for s in steps if not s.get("_is_serve")]
ExecSteps(parsed) == SelectSeq(parsed, LAMBDA st : ~st._is_serve)

LogEntry(op, cmd, path) == [op |-> op, cmd |-> cmd, path |-> path]

_exec_step_WritesAnyway(step, ok) ==
    LET ran == IF step.cmd # NoCmd THEN <<LogEntry("run", step.cmd, "")>> ELSE <<>>
    IN  [ok  |-> ~(step.cmd # NoCmd /\ ~ok),
         log |-> ran \o [k \in 1..Len(step.files) |->
                            LogEntry("write", step.cmd, step.files[k])]]

\* _exec_step: the command, if any, goes to _run and ok is how _run ended; the
\* files are written unless the command failed
_exec_step(step, ok) ==
    LET ran == IF step.cmd # NoCmd THEN <<LogEntry("run", step.cmd, "")>> ELSE <<>>
    IN  IF step.cmd # NoCmd /\ ~ok
        THEN [ok |-> FALSE, log |-> ran]
        ELSE [ok  |-> TRUE,
              log |-> ran \o [k \in 1..Len(step.files) |->
                                 LogEntry("write", step.cmd, step.files[k])]]

\* the log of the fix steps of one attempt: the first n of them succeed, the next fails
RECURSIVE RunFixSteps(_, _)
RunFixSteps(fix_steps, n) ==
    IF fix_steps = <<>> THEN <<>>
    ELSE IF n = 0 THEN _exec_step(fix_steps[1], FALSE).log
    ELSE _exec_step(fix_steps[1], TRUE).log \o RunFixSteps(Tail(fix_steps), n - 1)

(***************************************************************************)
(* SpecSteps: the step loop of run_orchestrator on every plan of           *)
(* RawPlanInputs, with every outcome of the commands, every fix response   *)
(* of StepFixResponses and every answer of the user.                       *)
(***************************************************************************)
MaxSteps == 2

StepInputs ==
    { Step(<<"NG", " ", "Serve", " ", "--open">>, <<"a.ts">>),
      Step(<<"npm", " ", "start">>, <<>>),
      Step(<<"npx", " ", "ng", " ", "serve">>, <<"b.ts">>),
      Step(<<"ng", " ", "build">>, <<"c.ts">>),
      Step(<<"npm", " ", "install", " ", "-g", " ", "x">>, <<"d.ts">>),
      Step(NoCmd, <<"e.ts">>) }

RawPlanInputs == SeqsUpTo(StepInputs, MaxSteps)

NoFixPlan == [isNone |-> TRUE, parsed |-> <<>>]

FixPlan(parsed) == [isNone |-> FALSE, parsed |-> parsed]

\* what _ask_web returns for a fix request: nothing, or a plan read into steps
StepFixResponses ==
    { NoFixPlan,
      FixPlan(<<Step(<<"ng", " ", "serve">>, <<"a.ts">>)>>),
      FixPlan(<<Step(<<"ng", " ", "build">>, <<"c.ts">>),
                Step(<<"npm", " ", "start">>, <<>>)>>),
      FixPlan(<<Step(NoCmd, <<"e.ts">>),
                Step(<<"npx", " ", "ng", " ", "serve">>, <<"b.ts">>)>>) }

InitSteps ==
    /\ rawSteps \in RawPlanInputs
    /\ steps = <<>> /\ step_num = 0 /\ attempt = 0 /\ stepLog = <<>> /\ stepStatus = "idle"
    /\ IdleState /\ IdleValidator /\ IdlePlan /\ IdleExecutor /\ IdlePlanner
    /\ IdleServe /\ IdleRun /\ IdleNested /\ IdleWorkspaces /\ IdleWeb /\ IdleAutofix
    /\ IdleRetries

OnlyStepsChange ==
    UNCHANGED <<valVars, planVars, countVars, pathVars, lastCall, guard, execVars, askVars,
                serveVars, runVars, nestVars, wsVars, webVars, autofixVars, retryVars>>

\* the loop goes on with exec_steps[n], or is over
GoOnWith(parsed, n) ==
    /\ step_num' = n
    /\ attempt' = 0
    /\ stepStatus' = IF n > Len(ExecSteps(parsed)) THEN "done" ELSE "running"

\* steps = _parse_plan(resp_steps); no step at all ends the run
ParsePlan ==
    /\ stepStatus = "idle"
    /\ steps' = _parse_plan(rawSteps)
    /\ IF steps' = <<>>
       THEN stepStatus' = "no_steps" /\ UNCHANGED <<step_num, attempt>>
       ELSE GoOnWith(steps', 1)
    /\ UNCHANGED <<rawSteps, stepLog>>
    /\ OnlyStepsChange

\* ok, error_out = _exec_step(step, ...) on the next of exec_steps
ExecStep ==
    /\ stepStatus = "running"
    /\ \E ok \in BOOLEAN :
          LET r == _exec_step(ExecSteps(steps)[step_num], ok)
          IN  /\ stepLog' = stepLog \o r.log
              /\ IF r.ok
                 THEN GoOnWith(steps, step_num + 1)
                 ELSE stepStatus' = "fixing" /\ attempt' = 1 /\ UNCHANGED step_num
    /\ UNCHANGED <<rawSteps, steps>>
    /\ OnlyStepsChange

\* one pass of "for attempt in range(1, MAX_FIX_ATTEMPTS+1)": the oracle is asked
\* for a fix and the steps of its answer that are not serve steps are executed
FixAttempt ==
    /\ stepStatus = "fixing"
    /\ \E fix_resp \in StepFixResponses :
          LET fix_steps == IF fix_resp.isNone THEN <<>>
                           ELSE ExecSteps(_parse_plan(fix_resp.parsed))
              asked     == Append(stepLog, LogEntry("ask", NoCmd, ""))
          IN  IF fix_steps = <<>>
              THEN /\ stepLog' = asked
                   /\ stepStatus' = "asking_user"
                   /\ UNCHANGED <<step_num, attempt>>
              ELSE \E n \in 0..Len(fix_steps) :
                     /\ n < Len(fix_steps) => fix_steps[n + 1].cmd # NoCmd
                     /\ stepLog' = asked \o RunFixSteps(fix_steps, n)
                     /\ IF n = Len(fix_steps)
                        THEN GoOnWith(steps, step_num + 1)
                        ELSE IF attempt >= MAX_FIX_ATTEMPTS
                        THEN stepStatus' = "asking_user" /\ UNCHANGED <<step_num, attempt>>
                        ELSE attempt' = attempt + 1 /\ UNCHANGED <<step_num, stepStatus>>
    /\ UNCHANGED <<rawSteps, steps>>
    /\ OnlyStepsChange

\* r = input("¿Continuar? (s/n)"): anything but s or y stops the run
UserAnswers ==
    /\ stepStatus = "asking_user"
    /\ \E r \in {"s", "y", "n", ""} :
          IF r \in {"s", "y"}
          THEN GoOnWith(steps, step_num + 1)
          ELSE stepStatus' = "stopped" /\ UNCHANGED <<step_num, attempt>>
    /\ UNCHANGED <<rawSteps, steps, stepLog>>
    /\ OnlyStepsChange

NextSteps == ParsePlan \/ ExecStep \/ FixAttempt \/ UserAnswers

SpecSteps == InitSteps /\ [][NextSteps]_vars

(***************************************************************************)
(* The quality gate and its autofix rounds, and core/planner.py :          *)
(* get_phase_actions for what the prompt of a round holds.                 *)
(*                                                                         *)
(* A failure is [command, output] of a failing check.  A context is        *)
(* [failing, accumulated_quality_failures, forbidden_commands,             *)
(* valid_commands].  A prompt is recorded by its three command sections.   *)
(***************************************************************************)
MAX_AUTOFIX_ROUNDS == 3
ValidCommandsLimit == 20
ForbiddenCommandsLimit == 30

\* _dedupe_keep_order, having kept out so far
RECURSIVE DedupeFrom(_, _, _)
DedupeFrom(items, out, limit) ==
    IF items = <<>> THEN out
    ELSE IF items[1] \in Range(out) THEN DedupeFrom(Tail(items), out, limit)
    ELSE IF Len(out) + 1 >= limit THEN Append(out, items[1])
    ELSE DedupeFrom(Tail(items), Append(out, items[1]), limit)

_dedupe_keep_order(items, limit) == DedupeFrom(items, <<>>, limit)

\* the sections "Comandos válidos", "COMANDOS PROHIBIDOS" and "FALLOS ACUMULADOS"
\* of the prompt of get_phase_actions
get_phase_actions(context) ==
    [valid     |-> _dedupe_keep_order(context.valid_commands, ValidCommandsLimit),
     forbidden |-> _dedupe_keep_order(context.forbidden_commands, ForbiddenCommandsLimit),
     accum     |-> context.accumulated_quality_failures]

\* the battery of the quality gate, in order
QualityCommands == <<"ng build", "ng test">>

\* the commands the context offers before any has failed
BaseValidCommands == <<"ng build", "ng generate", "ng test">>

CheckOutputs == {"e1", "e2"}

Failure(command, output) == [command |-> command, output |-> output]

\* a round of checks: per command of the battery "ok" or the output of its failure
QualityResults == [1..Len(QualityCommands) -> {"ok"} \cup CheckOutputs]

\* the failing checks of a round, in the order of the battery
RECURSIVE FailuresFrom(_, _)
FailuresFrom(result, i) ==
    IF i > Len(QualityCommands) THEN <<>>
    ELSE IF result[i] = "ok" THEN FailuresFrom(result, i + 1)
    ELSE <<Failure(QualityCommands[i], result[i])>> \o FailuresFrom(result, i + 1)

NoContext ==
    [failing |-> <<>>, accumulated_quality_failures |-> <<>>, forbidden_commands |-> <<>>,
     valid_commands |-> BaseValidCommands]

CommandsOf(failures) == [k \in 1..Len(failures) |-> failures[k].command]

BuildFixContext_ThisRoundOnly(previous, failures) ==
    [failing |-> failures,
     accumulated_quality_failures |-> failures,
     forbidden_commands |-> _dedupe_keep_order(CommandsOf(failures), ForbiddenCommandsLimit),
     valid_commands |->
        SelectSeq(BaseValidCommands, LAMBDA c : c \notin Range(CommandsOf(failures)))]

\* the autofix context of a round: the failing checks, the failures of all rounds so
\* far, every command that failed so far, and the valid commands without them
BuildFixContext(previous, failures) ==
    LET forbidden == _dedupe_keep_order(previous.forbidden_commands \o CommandsOf(failures),
                                        ForbiddenCommandsLimit)
    IN  [failing |-> failures,
         accumulated_quality_failures |-> previous.accumulated_quality_failures \o failures,
         forbidden_commands |-> forbidden,
         valid_commands |-> SelectSeq(BaseValidCommands, LAMBDA c : c \notin Range(forbidden))]

(***************************************************************************)
(* SpecAutofix: the quality gate after a code-producing phase, with every  *)
(* outcome of the checks in every round.                                   *)
(***************************************************************************)
InitAutofix ==
    /\ quality_round = 0 /\ roundFailures = <<>> /\ fixContexts = <<>> /\ fixPrompts = <<>>
    /\ autofixStatus = "gate"
    /\ IdleState /\ IdleValidator /\ IdlePlan /\ IdleExecutor /\ IdlePlanner
    /\ IdleServe /\ IdleRun /\ IdleNested /\ IdleWorkspaces /\ IdleWeb /\ IdleSteps
    /\ IdleRetries

OnlyAutofixChanges ==
    UNCHANGED <<valVars, planVars, countVars, pathVars, lastCall, guard, execVars, askVars,
                serveVars, runVars, nestVars, wsVars, webVars, stepVars, retryVars>>

\* the checks of a round run: no failure ends the loop well, the failures of the
\* round before seen again end it as a stall, otherwise a fix is due
QualityGate ==
    /\ autofixStatus = "gate"
    /\ \E result \in QualityResults :
          LET failures == FailuresFrom(result, 1)
          IN  /\ roundFailures' = Append(roundFailures, failures)
              /\ autofixStatus' =
                    IF failures = <<>> THEN "passed"
                    ELSE IF roundFailures # <<>> /\ Last(roundFailures) = failures
                    THEN "stalled"
                    ELSE IF quality_round >= MAX_AUTOFIX_ROUNDS THEN "failed"
                    ELSE "autofix"
    /\ UNCHANGED <<quality_round, fixContexts, fixPrompts>>
    /\ OnlyAutofixChanges

\* an autofix round: the context is built and get_phase_actions asks for the fix
Autofix ==
    /\ autofixStatus = "autofix"
    /\ LET previous == IF fixContexts = <<>> THEN NoContext ELSE Last(fixContexts)
           context  == BuildFixContext(previous, Last(roundFailures))
       IN  /\ fixContexts' = Append(fixContexts, context)
           /\ fixPrompts' = Append(fixPrompts, get_phase_actions(context))
    /\ quality_round' = quality_round + 1
    /\ autofixStatus' = "gate"
    /\ UNCHANGED roundFailures
    /\ OnlyAutofixChanges

NextAutofix == QualityGate \/ Autofix

SpecAutofix == InitAutofix /\ [][NextAutofix]_vars

(***************************************************************************)
(* C25: the autofix context only grows                                     *)
(***************************************************************************)
\* the failures of the rounds 1..n, in order
RECURSIVE FailuresUpTo(_)
FailuresUpTo(n) == IF n = 0 THEN <<>> ELSE FailuresUpTo(n - 1) \o roundFailures[n]

\* C25: the context of round n holds the failures of the rounds 1..n as
\* accumulated_quality_failures, every command that failed in one of them is in
\* forbidden_commands, and the prompt of the round lists no forbidden command among
\* the valid commands while it lists all of them as forbidden.
C25_FixContextOnlyGrows ==
    \A n \in 1..Len(fixContexts) :
        /\ fixContexts[n].accumulated_quality_failures = FailuresUpTo(n)
        /\ fixPrompts[n].accum = FailuresUpTo(n)
        /\ \A k \in 1..n : \A f \in Range(roundFailures[k]) :
              /\ f.command \in Range(fixContexts[n].forbidden_commands)
              /\ f.command \in Range(fixPrompts[n].forbidden)
              /\ f.command \notin Range(fixContexts[n].valid_commands)
              /\ f.command \notin Range(fixPrompts[n].valid)
        /\ Range(fixPrompts[n].valid) \cap Range(fixPrompts[n].forbidden) = {}

\* a third round whose failing command differs from those of the rounds before
C25_Witness ==
    /\ Len(fixContexts) = 3
    /\ Len(fixContexts[3].accumulated_quality_failures) >= 3
    /\ \E f \in Range(roundFailures[1]) : f.command \notin Range(CommandsOf(roundFailures[3]))
    /\ Len(fixPrompts[3].forbidden) > Len(fixPrompts[1].forbidden)

(***************************************************************************)
(* core/orchestrator.py : the ng new loop of run_orchestrator, and         *)
(* core/agent.py : run_agent.                                              *)
(*                                                                         *)
(* An action of the agent is known by its kind: "w1" and "w2" write files, *)
(* "done" and "impossible" end the task.  Its hash is the action itself.   *)
(***************************************************************************)
MAX_ITERATIONS == 8

OnlyCreateChanges ==
    UNCHANGED <<valVars, planVars, countVars, pathVars, lastCall, guard, execVars, askVars,
                serveVars, runVars, nestVars, wsVars, webVars, stepVars, autofixVars,
                task, agentVars>>

OnlyAgentChanges ==
    UNCHANGED <<valVars, planVars, countVars, pathVars, lastCall, guard, execVars, askVars,
                serveVars, runVars, nestVars, wsVars, webVars, stepVars, autofixVars,
                task, createVars>>

\* "SONNY crea el proyecto": the loop is entered with attempt 1
CreateProject ==
    /\ createStatus = "idle"
    /\ createStatus' = "creating"
    /\ create_attempt' = 1
    /\ UNCHANGED <<create_cmd, create_asks>>
    /\ OnlyCreateChanges

\* one pass of "for attempt in range(1, MAX_FIX_ATTEMPTS+1)": ng new runs; when it
\* fails in the last pass the run ends, in an earlier pass the oracle is asked for
\* a corrected command, which replaces create_cmd if the answer holds one
NgNewAttempt ==
    /\ createStatus = "creating"
    /\ \E ok \in BOOLEAN, fix_resp \in {"", "no ng new", "ng new"} :
          IF ok
          THEN createStatus' = "created" /\ UNCHANGED <<create_attempt, create_cmd, create_asks>>
          ELSE IF create_attempt >= MAX_FIX_ATTEMPTS
          THEN createStatus' = "failed" /\ UNCHANGED <<create_attempt, create_cmd, create_asks>>
          ELSE /\ create_asks' = create_asks + 1
               /\ create_cmd' = IF fix_resp = "ng new" THEN "fixed" ELSE create_cmd
               /\ create_attempt' = create_attempt + 1
               /\ UNCHANGED createStatus
    /\ OnlyCreateChanges

AgentActions == {"w1", "w2", "done", "impossible"}

\* what _process_single_action returns for the action
ProcessSingleAction(accion) ==
    IF accion \in {"done", "impossible"} THEN accion ELSE "continue"

NoAnswer == [kind |-> "none", actions |-> <<>>]

\* what _call_agent_ai returns: None, a list of actions or one action
AgentResponses ==
    {NoAnswer}
        \cup { [kind |-> "list", actions |-> l] : l \in SeqsUpTo(AgentActions, 2) }
        \cup { [kind |-> "dict", actions |-> <<a>>] : a \in AgentActions }

\* the actions of a list response that _process_single_action is called for:
\* all of them up to the first that it finds impossible
RECURSIVE ProcessedOf(_)
ProcessedOf(actions) ==
    IF actions = <<>> THEN <<>>
    ELSE IF ProcessSingleAction(actions[1]) = "impossible" THEN <<actions[1]>>
    ELSE <<actions[1]>> \o ProcessedOf(Tail(actions))

\* the actions that the pass executes for the response
ExecutedFor(respuesta, hash) ==
    CASE respuesta.kind = "none" -> <<>>
      [] respuesta.kind = "list" -> ProcessedOf(respuesta.actions)
      [] respuesta.kind = "dict" ->
             IF respuesta.actions[1] = hash THEN <<>> ELSE respuesta.actions

\* the pass with the response it got, the actions it executed (ran) and the
\* last action that had been executed before it (prev)
PassOf(respuesta, hash, last) ==
    [prev    |-> IF last.ran # <<>> THEN last.ran[Len(last.ran)] ELSE last.prev,
     kind    |-> respuesta.kind,
     actions |-> respuesta.actions,
     ran     |-> ExecutedFor(respuesta, hash)]

RunAgent ==
    /\ agentStatus = "idle"
    /\ agentStatus' = "running"
    /\ agent_i' = 1
    /\ UNCHANGED <<last_action_hash, agentPass>>
    /\ OnlyAgentChanges

\* the pass goes on to pass i + 1, or the loop is over
NextIteration ==
    /\ agent_i' = IF agent_i >= MAX_ITERATIONS THEN agent_i ELSE agent_i + 1
    /\ agentStatus' = IF agent_i >= MAX_ITERATIONS THEN "max_iterations" ELSE "running"

AgentIteration_NoCeiling ==
    /\ agentStatus = "running"
    /\ \E respuesta \in AgentResponses :
        /\ agentPass' = PassOf(respuesta, last_action_hash, agentPass)
        /\ IF respuesta.kind = "none"
          THEN agentStatus' = "no_response" /\ UNCHANGED <<agent_i, last_action_hash>>
          ELSE IF respuesta.kind = "list"
          THEN /\ UNCHANGED last_action_hash
               /\ IF "impossible" \in Range(respuesta.actions)
                  THEN agentStatus' = "impossible" /\ UNCHANGED agent_i
                  ELSE agent_i' = agent_i + 1 /\ UNCHANGED agentStatus
          ELSE LET accion == respuesta.actions[1]
               IN  IF accion = last_action_hash
                   THEN last_action_hash' = "" /\ agent_i' = agent_i + 1
                        /\ UNCHANGED agentStatus
                   ELSE /\ last_action_hash' = accion
                        /\ IF ProcessSingleAction(accion) = "continue"
                           THEN agent_i' = agent_i + 1 /\ UNCHANGED agentStatus
                           ELSE agentStatus' = ProcessSingleAction(accion)
                                /\ UNCHANGED agent_i
    /\ OnlyAgentChanges

\* one pass of "for i in range(1, MAX_ITERATIONS + 1)"
AgentIteration ==
    /\ agentStatus = "running"
    /\ \E respuesta \in AgentResponses :
        /\ agentPass' = PassOf(respuesta, last_action_hash, agentPass)
        /\ IF respuesta.kind = "none"
          THEN agentStatus' = "no_response" /\ UNCHANGED <<agent_i, last_action_hash>>
          ELSE IF respuesta.kind = "list"
          THEN /\ UNCHANGED last_action_hash
               /\ IF "impossible" \in Range(respuesta.actions)
                  THEN agentStatus' = "impossible" /\ UNCHANGED agent_i
                  ELSE NextIteration
          ELSE LET accion == respuesta.actions[1]
               IN  IF accion = last_action_hash
                   THEN last_action_hash' = "" /\ NextIteration
                   ELSE /\ last_action_hash' = accion
                        /\ IF ProcessSingleAction(accion) = "continue"
                           THEN NextIteration
                           ELSE agentStatus' = ProcessSingleAction(accion)
                                /\ UNCHANGED agent_i
    /\ OnlyAgentChanges

(***************************************************************************)
(* SpecRetries: one task invocation in one of its retry loops, with every  *)
(* sequence of oracle responses: _ask_json, the ng new loop, the step      *)
(* loop, the fix rounds of _serve_and_fix, run_agent.  The thread of the   *)
(* task keeps running; every oracle call, command and input() returns.     *)
(***************************************************************************)
Tasks == {"planner", "create", "steps", "serve", "agent"}

RetryPlanInputs ==
    SeqsUpTo({ Step(<<"ng", " ", "build">>, <<"c.ts">>),
               Step(<<"npm", " ", "start">>, <<>>),
               Step(NoCmd, <<"e.ts">>) }, MaxSteps)

InitRetries ==
    /\ task \in Tasks
    /\ IdleState /\ IdleValidator /\ IdlePlan /\ IdleExecutor /\ IdlePlanner
    /\ IdleServe /\ IdleRun /\ IdleNested /\ IdleWorkspaces /\ IdleWeb
    /\ IdleCreate /\ IdleAgent
    /\ rawSteps \in (IF task = "steps" THEN RetryPlanInputs ELSE {<<>>})
    /\ steps = <<>> /\ step_num = 0 /\ attempt = 0 /\ stepLog = <<>> /\ stepStatus = "idle"
    /\ IdleAutofix

PlannerRetries == task = "planner" /\ NextAsk

CreateRetries == task = "create" /\ (CreateProject \/ NgNewAttempt)

StepRetries == task = "steps" /\ NextSteps

ServeRetries == task = "serve" /\ NextServe

AgentRetries == task = "agent" /\ (RunAgent \/ AgentIteration)

NextRetries ==
    \/ PlannerRetries
    \/ CreateRetries
    \/ StepRetries
    \/ ServeRetries
    \/ AgentRetries

SpecRetries == InitRetries /\ [][NextRetries]_vars /\ WF_vars(NextRetries)

(***************************************************************************)
(* C26: every retry loop has a ceiling and an end                          *)
(***************************************************************************)
\* the oracle calls that the loop of the task has made
OracleCalls ==
    CASE task = "planner" -> llmCalls
      [] task = "create"  -> create_asks
      [] task = "steps"   -> Cardinality({k \in 1..Len(stepLog) : stepLog[k].op = "ask"})
      [] task = "serve"   -> Len(fixRequests)
      [] task = "agent"   -> agent_i
      [] OTHER            -> 0

\* the ceiling of the loop of the task: 3 planner calls, 3 ng new attempts, 3 fix
\* attempts for each executed step, 3 fix rounds of the build, 8 passes of the agent
Ceiling ==
    CASE task = "planner" -> 3
      [] task = "create"  -> 3
      [] task = "steps"   -> 3 * Len(ExecSteps(steps))
      [] task = "serve"   -> 3
      [] task = "agent"   -> 8
      [] OTHER            -> 0

\* the loop of the task has ended, with a result or an error
TaskEnded ==
    CASE task = "planner" -> askStatus \in {"returned", "PlannerError", "OracleError"}
      [] task = "create"  -> createStatus \in {"created", "failed"}
      [] task = "steps"   -> stepStatus \in {"no_steps", "done", "stopped"}
      [] task = "serve"   -> serveStatus \in {"served", "exhausted", "no_response", "no_steps"}
      [] task = "agent"   ->
            agentStatus \in {"done", "impossible", "no_response", "max_iterations"}
      [] OTHER            -> FALSE

\* C26: in every retry loop the oracle calls never pass the ceiling of the loop
\* (planner 3, ng new 3, fix attempts 3 per step, fix rounds 3, agent passes 8),
\* the attempt counters stay within it, and the loop always comes to an end.
C26_RetriesBoundedAndEnd ==
    /\ [](/\ OracleCalls <= Ceiling
          /\ create_attempt <= 3 /\ attempt <= 3 /\ fix_round <= 3 /\ agent_i <= 8)
    /\ <>TaskEnded

\* the agent gave up after its eighth pass, the step loop after three fix attempts
C26_Witness ==
    \/ task = "agent" /\ agentStatus = "max_iterations" /\ agent_i = 8
    \/ task = "steps" /\ stepStatus = "asking_user" /\ attempt = 3

(***************************************************************************)
(* C24: blocking commands                                                  *)
(***************************************************************************)
\* the command line starts the development server: somewhere in it stand the words
\* ng serve or npm start, in any letter case
Blocks(cmd) ==
    /\ cmd # NoCmd
    /\ \E i \in 1..Len(cmd) :
          \/ MatchWords(Lower(cmd), i, <<"ng", "serve">>)
          \/ MatchWords(Lower(cmd), i, <<"npm", "start">>)

\* C24: no blocking command is handed to _run by the step executor, and no file of a
\* step with a blocking command is written.
C24_BlockingCommandsNeverRun ==
    \A k \in 1..Len(stepLog) :
        stepLog[k].op \in {"run", "write"} => ~Blocks(stepLog[k].cmd)

(***************************************************************************)
(* C23: dangerous commands                                                 *)
(***************************************************************************)
\* the word lists of the dangerous patterns whose words are separated by blanks
DangerousWordings ==
    { <<"rm", "-rf">>, <<"dd", "if=">>, <<"mkfs">>, <<"shutdown">>, <<"format">>,
      <<"del", "/f", "/s", "/q">> }

\* the words of w stand in text, ignoring case, each one blank run after the other
HoldsWording(text, w) ==
    \E f \in [1..Len(w) -> 1..Len(text)] :
        /\ \A k \in 1..Len(w) : LowerAtom(text[f[k]]) = w[k]
        /\ \A k \in 1..(Len(w) - 1) :
              /\ f[k] + 1 < f[k + 1]
              /\ \A m \in (f[k] + 1)..(f[k + 1] - 1) : IsSpace(text[m])

\* curl, blanks, then a first "|" followed, after any blanks, by sh
PipesToShell(text) ==
    \E i, k, j \in 1..Len(text) :
        /\ i + 1 < k /\ k < j
        /\ LowerAtom(text[i]) = "curl" /\ IsSpace(text[i + 1])
        /\ text[k] = "|" /\ LowerAtom(text[j]) = "sh"
        /\ \A m \in (i + 2)..(k - 1) : text[m] # "|"
        /\ \A m \in (k + 1)..(j - 1) : IsSpace(text[m])

\* a command action whose command is missing, empty, not a string or dangerous
IsRefusedCommand(a) ==
    /\ a.isDict /\ a.type = "command"
    /\ \/ ~a.command.isStr
       \/ a.command.text = <<>>
       \/ PipesToShell(a.command.text)
       \/ \E w \in DangerousWordings : HoldsWording(a.command.text, w)

\* C23: a payload is rejected when any of its command actions, at whatever position,
\* matches a dangerous pattern in any letter case, or has a missing, empty or
\* non-string command.
C23_DangerousCommandRejected ==
    (verdict # "pending" /\ payload.isList
        /\ \E i \in 1..Len(payload.actions) : IsRefusedCommand(payload.actions[i]))
    => verdict # "ok"

\* an upper-case recursive delete that stands last, behind an acceptable action, has
\* been rejected as dangerous
C23_Witness ==
    /\ verdict = "dangerous_command"
    /\ Len(payload.actions) = 2
    /\ payload.actions[1].type = "file_write"
    /\ payload.actions[2].type = "command"
    /\ "RM" \in Range(payload.actions[2].command.text)

(***************************************************************************)
(* What a LoopGuardError tells about the state it was raised in.           *)
(***************************************************************************)
Raised == guard \notin {"none", "ok"}

RaisedError == LoopGuardError(guard, current_phase, action_history)

CarriesPhase == current_phase # NoPhase /\ current_phase \in Range(RaisedError)

CarriesIterationCount == ToString(iteration_count) \in Range(RaisedError)

\* C27 (as stated): whichever rule fired, the LoopGuardError that check raises
\* carries the name of the current phase and the iteration count of the state
\* in which the violation was detected.
C27_ErrorCarriesPhaseAndIteration ==
    Raised => (CarriesPhase /\ CarriesIterationCount)

\* C28 (as stated): in an accepted plan every depends_on reference names exactly
\* one phase by the first of the rules exact name, normalized name, short alias
\* that names any: a reference whose rule names two phases is not bound to one.
C28_ReferenceNamesOnePhase ==
    planVerdict = "ok" =>
        \A i \in 1..Len(plan.phases) : \A k \in 1..Len(plan.phases[i].deps) :
            Cardinality(FirstRuleMatches(plan.phases[i].deps[k], plan)) = 1

\* C29 (as stated): right after every call set_phase(p), whatever the state
\* before it and also when p is already the current phase, phase_action_count
\* is 0.
C29_SetPhaseResetsActionCount ==
    lastCall.op = "set_phase" => phase_action_count = 0

\* number of trailing entries of the history that have the type of the last entry
SameTypeRun(h) ==
    LET runs == {n \in 0..Len(h) : \A i \in (Len(h) - n + 1)..Len(h) : h[i].type = Last(h).type}
    IN  CHOOSE n \in runs : \A m \in runs : m <= n

EndsInNonFileStreak(h) ==
    /\ h # <<>>
    /\ Last(h).type \in {"command", "llm_call"}
    /\ SameTypeRun(h) >= MAX_SAME_ACTION_STREAK

\* C30: when the last 5 registered actions are all command actions or all
\* llm_call actions, the check raises, whatever their commands or prompts (the
\* same-action rule when no counter rule fires first); and the same-action rule
\* fires only after at least 5 consecutive actions of one type.
C30_SameTypeStreakRaises ==
    guard # "none" =>
        /\ EndsInNonFileStreak(action_history) =>
               /\ guard # "ok"
               /\ WithinCeilings => guard = "same_action_streak"
        /\ guard = "same_action_streak" =>
               SameTypeRun(action_history) >= MAX_SAME_ACTION_STREAK

\* the check has raised after five llm_call actions with five different prompts
C30_Witness ==
    /\ guard = "same_action_streak"
    /\ EndsInNonFileStreak(action_history)
    /\ Last(action_history).type = "llm_call"
    /\ Cardinality(Range(LastK(action_history))) = MAX_SAME_ACTION_STREAK

\* the prompt holds the caller's request (the plan or phase-actions instructions)
HoldsRequest(sent) == UserPrompt[1] \in Range(sent)

\* C31 (as stated): the prompt of the 2nd and of the 3rd attempt of a request
\* holds the original request together with the error message of the attempt
\* right before it.
C31_RetryPromptKeepsRequest ==
    \A i \in 2..Len(prompts) :
        /\ HoldsRequest(prompts[i])
        /\ _extract_json(oracle[i - 1]).via \in Range(prompts[i])

StrategyNames == <<"as_is", "braced", "repaired">>

\* the value returned for raw is that of the first strategy, in the order as-is,
\* braced, repaired, whose text json.loads parses
StrategiesInOrder(raw) ==
    Parseable(raw) =>
        LET ins   == StrategyInputs(raw)
            first == CHOOSE k \in 1..Len(ins) :
                         json_loads(ins[k]).ok /\ \A j \in 1..(k - 1) : ~json_loads(ins[j]).ok
        IN  /\ _extract_json(raw).ok
            /\ _extract_json(raw).via = StrategyNames[first]
            /\ _extract_json(raw).value = json_loads(ins[first]).value

\* none of the strategies applied to raw ends in an exception
RaisesNothing(raw) == _extract_json(raw).ok

\* C32 (as stated): every response is parsed by the strategies as-is, braced,
\* repaired in this order, a later one only after the earlier ones failed, the
\* first success is returned unchanged, and no strategy raises an exception
\* whatever the text.
C32_StrategiesInOrderAndTotal ==
    \A i \in 1..Len(oracle) : StrategiesInOrder(oracle[i]) /\ RaisesNothing(oracle[i])

\* the last 5 actions are file_write or file_modify actions, in any mix, that
\* all name one and the same path
LastKWriteOnePath(h) ==
    /\ Len(h) >= MAX_SAME_ACTION_STREAK
    /\ \A a \in Range(LastK(h)) :
          /\ a.type \in {"file_write", "file_modify"}
          /\ a.path.text = Last(h).path.text
    /\ Target(Last(h)) # <<>>

\* C33 (as stated): whenever the last 5 registered actions are file_write or
\* file_modify actions, in any mix of the two types, to the same path, the
\* check raises.
C33_MixedWritesToOnePathRaise ==
    (guard # "none" /\ LastKWriteOnePath(action_history)) => guard # "ok"

\* a step of set_phase(p) adds one to phase_repetition_count[p] and any other
\* step leaves the counts as they are (they start at 0)
RepetitionCountsCalls ==
    IF guard' = "none" /\ lastCall'.op = "set_phase"
    THEN phase_repetition_count' =
             [phase_repetition_count EXCEPT ![lastCall'.phase] = @ + 1]
    ELSE phase_repetition_count' = phase_repetition_count

\* the check of a state whose current phase was entered 4 times or more raises
RaisesFromFourthEntry ==
    (guard # "none" /\ current_phase # NoPhase
        /\ phase_repetition_count[current_phase] > MAX_PHASE_REPETITIONS) => guard # "ok"

\* C34 (as stated): phase_repetition_count[p] is the number of set_phase(p) calls
\* made so far, no other operation lowers or resets it, and while p is the
\* current phase the check raises from the 4th set_phase(p) on, also when p was
\* completed in between.
C34_RepetitionCountIsCallCount ==
    [][RepetitionCountsCalls]_vars /\ []RaisesFromFourthEntry

(***************************************************************************)
(* SpecHistory: action_history of one AgentState across phases.  Phases    *)
(* are entered (MaxEntries times in all), completed and reset and          *)
(* iterations counted while actions are registered, with LoopGuard.check   *)
(* in between.  The registered actions are "ls" commands, after a write as *)
(* the first action or not.                                                *)
(***************************************************************************)
MaxEntries == 2

EnterPhase ==
    /\ SetPhase
    /\ phase_repetition_count'[""] + phase_repetition_count'["A"] <= MaxEntries

StreakActionInputs(history) ==
    {CommandOf(CommandTexts[1])}
        \cup (IF history = <<>> THEN {WriteOf("file_write", FileNames[1])} ELSE {})

RegisterStreakAction ==
    /\ Len(action_history) < MaxHistory
    /\ \E a \in StreakActionInputs(action_history) : register_action(a)
    /\ lastCall' = [op |-> "register_action"]
    /\ guard' = "none"
    /\ OnlyCountersChange

NextHistory ==
    \/ EnterPhase
    \/ CompletePhase
    \/ ResetPhase
    \/ IncrementIteration
    \/ RegisterStreakAction
    \/ CheckLoopGuard

SpecHistory == InitGuard /\ [][NextHistory]_vars

\* a step of register_action appends one entry and any other step leaves the
\* history as it is
HistoryOnlyGrows ==
    IF guard' = "none" /\ lastCall'.op = "register_action"
    THEN /\ Len(action_history') = Len(action_history) + 1
         /\ SubSeq(action_history', 1, Len(action_history)) = action_history
    ELSE action_history' = action_history

\* with the counters within their ceilings the same-action rule fires exactly
\* when the last 5 actions of the task are of one non-file type
StreakOverWholeTask ==
    (guard # "none" /\ WithinCeilings) =>
        (guard = "same_action_streak" <=> EndsInNonFileStreak(action_history))

\* C35: action_history is append-only: set_phase, complete_phase, reset_phase and
\* increment_iteration leave it unchanged and register_action appends exactly
\* one entry, so the same-type streak is taken over the last 5 actions of the
\* whole task, whatever phase they were registered in.
C35_HistoryAppendOnly ==
    [][HistoryOnlyGrows]_vars /\ []StreakOverWholeTask

\* the check that follows the entry of a new phase, in which nothing has been
\* registered yet, raises for the streak of five commands registered before it
C35_Witness ==
    /\ guard = "same_action_streak"
    /\ lastCall.op = "set_phase"
    /\ phase_action_count = 0
    /\ phase_repetition_count[current_phase] = 1

\* C36 (as stated): the value that a planner request returns is a JSON object;
\* a response that parses to an array, a string or a number is not returned.
C36_ReturnsJsonObject ==
    askStatus = "returned" => askValue.kind = "dict"

\* C37 (as stated): a pass of run_agent whose response is a single action equal
\* to the last action executed before it executes nothing, however often the
\* oracle repeats the action.
C37_RepeatedActionSkipped ==
    (agentPass.kind = "dict" /\ agentPass.prev # ""
        /\ agentPass.actions[1] = agentPass.prev) => agentPass.ran = <<>>

\* the build ended with exit code 0 and its output shows no build error
CleanBuild(out) == out.ok_build /\ ~_has_build_errors(out.text)

ServeLoopOver == serveStatus \in {"served", "exhausted", "no_response", "no_steps"}

\* C38: ng serve is started only right after the build of the current round
\* ended clean; when every build fails there are at most max_fix_rounds + 1
\* builds and the server is never started; and the loop is over, with no other
\* build, when the oracle gives no response or no fix step.
C38_ServeOnlyAfterCleanBuild ==
    /\ [](/\ serveStatus = "served" =>
               /\ builds # <<>> /\ CleanBuild(Last(builds))
               /\ Len(builds) = fix_round + 1
          /\ (\A i \in 1..Len(builds) : ~CleanBuild(builds[i])) =>
               /\ serveStatus # "served"
               /\ Len(builds) <= max_fix_rounds + 1
          /\ serveStatus \in {"no_response", "no_steps"} =>
               /\ Len(builds) = fix_round + 1 /\ ~CleanBuild(Last(builds))
               /\ Len(fixRequests) = Len(builds))
    /\ [][ServeLoopOver => (builds' = builds /\ serveStatus' = serveStatus)]_vars

\* the server has been started after a fix: the build of round 0 failed, the
\* oracle gave fix steps and the build of round 1 ended clean
C38_Witness ==
    /\ serveStatus = "served"
    /\ Len(builds) = 2
    /\ ~CleanBuild(builds[1])
    /\ Len(fixRequests) = 1

WritesIn(log) == {k \in 1..Len(log) : log[k].op = "write"}

\* _exec_step on the step with a command that ends as ok says
AllOrNothing(step, ok) ==
    LET r == _exec_step(step, ok)
    IN  /\ (step.cmd # NoCmd /\ ~ok) =>
               (~r.ok /\ r.log = <<LogEntry("run", step.cmd, "")>>)
        /\ WritesIn(r.log) # {} => (r.ok /\ (step.cmd = NoCmd \/ ok))
        /\ (step.cmd = NoCmd \/ ok) =>
               (r.ok /\ Cardinality(WritesIn(r.log)) = Len(step.files))

\* C40: when the command of a step fails, _exec_step writes none of the files of
\* the step and returns False; the files of a step are written only after its
\* command succeeded or when the step has no command.  In the step loop: right
\* after a step failed the log ends with its command, and every file written
\* for a step with a command comes after the run of that command.
C40_FailingCommandWritesNothing ==
    /\ \A i \in 1..Len(steps) : \A ok \in BOOLEAN : AllOrNothing(steps[i], ok)
    /\ (stepStatus = "fixing" /\ attempt = 1) =>
           Last(stepLog) = LogEntry("run", ExecSteps(steps)[step_num].cmd, "")
    /\ \A k \in WritesIn(stepLog) :
           stepLog[k].cmd # NoCmd =>
               /\ k > 1
               /\ stepLog[k - 1].cmd = stepLog[k].cmd
               /\ stepLog[k - 1].op \in {"run", "write"}

\* a step with a command and files has failed: its command was run and none
\* of its files written
C40_Witness ==
    /\ stepStatus = "fixing" /\ attempt = 1
    /\ Last(stepLog).op = "run"
    /\ ExecSteps(steps)[step_num].files # <<>>

(***************************************************************************)
(* SpecRuntime: the runtime loop of core/ai_scraper.py under several       *)
(* calling threads.  Each thread calls ask_ai_multiturn or                 *)
(* shutdown_ai_scraper_runtime, again and again.  _RUNTIME_LOCK makes the  *)
(* body of _ensure_runtime_loop and the first block of                     *)
(* _shutdown_runtime_loop atomic; everything else in the two callers runs  *)
(* outside the lock and interleaves freely.  _RUNTIME_LOOP and             *)
(* _RUNTIME_THREAD are always assigned together, so one variable stands    *)
(* for the pair; the worker thread of a loop is alive while the loop runs. *)
(***************************************************************************)
MaxLoops   == 3
MaxSubmits == 3

\* _ensure_runtime_loop under the lock: the registered loop when its thread is alive,
\* a new loop registered in its place otherwise
_ensure_runtime_loop(registered, ls) ==
    IF registered # 0 /\ ls[registered] = "running"
    THEN [loop |-> registered, loops |-> ls]
    ELSE [loop |-> Len(ls) + 1, loops |-> Append(ls, "running")]

InitRuntime ==
    /\ IdleState /\ IdleValidator /\ IdlePlan /\ IdleExecutor /\ IdlePlanner
    /\ IdleServe /\ IdleRun /\ IdleNested /\ IdleWorkspaces /\ IdleCaller /\ IdleRuntime
    /\ IdleLate

OnlyRuntimeChanges ==
    UNCHANGED <<valVars, planVars, countVars, pathVars, lastCall, guard, execVars, askVars,
                serveVars, runVars, nestVars, wsVars, callerPc, coro, inFlight, oracleEvents,
                lateVars>>

\* ask_ai_multiturn, first statement: loop = _ensure_runtime_loop()
EnsureRuntimeLoop(t) ==
    /\ threadPc[t] = "idle"
    /\ Len(submitted) + Cardinality({u \in Threads : threadPc[u] = "submit"}) < MaxSubmits
    /\ LET r == _ensure_runtime_loop(_RUNTIME_LOOP, loops)
       IN  /\ Len(r.loops) <= MaxLoops
           /\ loops' = r.loops
           /\ _RUNTIME_LOOP' = r.loop
           /\ threadLoop' = [threadLoop EXCEPT ![t] = r.loop]
    /\ threadPc' = [threadPc EXCEPT ![t] = "submit"]
    /\ UNCHANGED submitted
    /\ OnlyRuntimeChanges

\* ask_ai_multiturn, second statement: run_coroutine_threadsafe(_multiturn_async(..), loop)
SubmitCoroutine(t) ==
    /\ threadPc[t] = "submit"
    /\ submitted' = Append(submitted, [thread |-> t, loop |-> threadLoop[t],
                                       state |-> loops[threadLoop[t]]])
    /\ threadPc' = [threadPc EXCEPT ![t] = "result"]
    /\ UNCHANGED <<_RUNTIME_LOOP, loops, threadLoop>>
    /\ OnlyRuntimeChanges

\* ask_ai_multiturn, third statement: future.result() returns once the loop ran the coroutine
MultiturnReturns(t) ==
    /\ threadPc[t] = "result"
    /\ loops[threadLoop[t]] = "running"
    /\ threadPc' = [threadPc EXCEPT ![t] = "idle"]
    /\ threadLoop' = [threadLoop EXCEPT ![t] = 0]
    /\ UNCHANGED <<_RUNTIME_LOOP, loops, submitted>>
    /\ OnlyRuntimeChanges

\* _shutdown_runtime_loop under the lock: take the registered pair and clear the globals;
\* with nothing registered the call returns at once
ShutdownClears(t) ==
    /\ threadPc[t] = "idle"
    /\ _RUNTIME_LOOP # 0
    /\ threadLoop' = [threadLoop EXCEPT ![t] = _RUNTIME_LOOP]
    /\ _RUNTIME_LOOP' = 0
    /\ threadPc' = [threadPc EXCEPT ![t] = "stop"]
    /\ UNCHANGED <<loops, submitted>>
    /\ OnlyRuntimeChanges

\* _shutdown_runtime_loop outside the lock: the sessions are closed on the loop, then
\* loop.call_soon_threadsafe(loop.stop) and thread.join
ShutdownStops(t) ==
    /\ threadPc[t] = "stop"
    /\ loops' = [loops EXCEPT ![threadLoop[t]] = "stopped"]
    /\ threadPc' = [threadPc EXCEPT ![t] = "idle"]
    /\ threadLoop' = [threadLoop EXCEPT ![t] = 0]
    /\ UNCHANGED <<_RUNTIME_LOOP, submitted>>
    /\ OnlyRuntimeChanges

ThreadEnsuresLoop == \E t \in Threads : EnsureRuntimeLoop(t)

RunCoroutineThreadsafe == \E t \in Threads : SubmitCoroutine(t)

ThreadGetsResult == \E t \in Threads : MultiturnReturns(t)

ShutdownUnderLock == \E t \in Threads : ShutdownClears(t)

ShutdownLoopStop == \E t \in Threads : ShutdownStops(t)

NextRuntime ==
    \/ ThreadEnsuresLoop
    \/ RunCoroutineThreadsafe
    \/ ThreadGetsResult
    \/ ShutdownUnderLock
    \/ ShutdownLoopStop

SpecRuntime == InitRuntime /\ [][NextRuntime]_vars

\* the registered pair is one loop of those created, or none
OneRegistered == _RUNTIME_LOOP \in 0..Len(loops)

\* a step that creates a loop is taken with no registered loop alive
CreatesOnlyWhenNoneAlive ==
    Len(loops') > Len(loops) => (_RUNTIME_LOOP = 0 \/ loops[_RUNTIME_LOOP] = "stopped")

\* every coroutine was handed to a loop that was running at that moment
SubmittedToRunningLoop == \A k \in 1..Len(submitted) : submitted[k].state = "running"

\* C39: under any interleaving of ask_ai_multiturn and shutdown_ai_scraper_runtime calls
\* from several threads, at most one runtime loop and thread is registered at a time,
\* _ensure_runtime_loop creates a new one only when none is alive, and a coroutine is
\* never submitted to a loop that has already been stopped.
C39_RuntimeLoopSafeUnderThreads ==
    /\ [][CreatesOnlyWhenNoneAlive]_vars
    /\ [](OneRegistered /\ SubmittedToRunningLoop)

====
